---- MODULE Spec2Model ----
(***************************************************************************)
(* Electronic-contract signing tool: the browser application (App, the     *)
(* AdminDashboard, the ContractWizard with its SignaturePad), the          *)
(* localStorage-backed backendService, the pdfService and the remote relay *)
(* reached by POST /api/contracts.                                         *)
(*                                                                         *)
(* Text is a sequence of character codes.  One JavaScript task (a timer    *)
(* callback, an event handler, the continuation of a settled promise with  *)
(* the microtasks it queues) is one action.                                *)
(***************************************************************************)
EXTENDS Integers, Sequences, FiniteSets, Bags, TLC

(***************************************************************************)
(* Bounds of the model.                                                    *)
(***************************************************************************)
\* Clock ticks (milliseconds of Date.now()) after the application was loaded.
MaxTicks == 3
\* handleSign invocations that have not settled, at any time.
MaxTasks == 2
\* handleFileChange invocations that have not settled, at any time.
MaxUploads == 2
\* Capacity of localStorage, in the units of ItemSize.
Quota == 7

(***************************************************************************)
(* Text.                                                                   *)
(***************************************************************************)
Empty == <<>>
\* "Kim", "010", "a@b.c", "Seoul" (shortened to "Se"), "bad"
TxtKim == <<75, 105, 109>>
TxtPhone == <<48, 49, 48>>
TxtEmail == <<97, 64, 98, 46, 99>>
TxtSeoul == <<83, 101>>
TxtBad == <<98, 97, 100>>
\* Hangul: "공"
TxtHangulPhone == <<44277>>

(***************************************************************************)
(* Values.                                                                 *)
(***************************************************************************)
\* new Date(ms).toISOString(): the timestamp as text, kept as its instant.
toISOString(ms) == [iso |-> ms]

\* `${prefix}${n}`: a number printed in decimal, without leading zeros.
RECURSIVE Digits(_)
Digits(n) ==
    IF n < 0 THEN <<-1>> \o Digits(-n)
    ELSE IF n < 10 THEN <<n>> ELSE Digits(n \div 10) \o <<n % 10>>

\* An identifier: its prefix and the characters printed after it.
MakeId(prefix, n) == [prefix |-> prefix, digits |-> Digits(n)]

\* The characters of `${n}` (a digit -1 of Digits is the minus sign) and of an
\* identifier.
NumberText(n) == [i \in 1..Len(Digits(n)) |-> IF Digits(n)[i] = -1 THEN 45 ELSE 48 + Digits(n)[i]]
IdText(id) ==
    (IF id.prefix = "cnt_" THEN <<99, 110, 116, 95>> ELSE <<116, 112, 108, 95>>)
    \o [i \in 1..Len(id.digits) |-> IF id.digits[i] = -1 THEN 45 ELSE 48 + id.digits[i]]

\* new Date(dateStr) read with getFullYear() and getMonth() + 1 in the time zone
\* of the device, UTC+9: local midnight of 1 January 1970 is 32 400 000 ms
\* before the epoch.  Every time the model can hold (32-bit milliseconds) is
\* local December 1969 or January 1970.
LocalTime(date) == date.iso + 9 * 3600000
getFullYear(date) == IF LocalTime(date) < 0 THEN 1969 ELSE 1970
getMonth(date) == IF LocalTime(date) < 0 THEN 11 ELSE 0
\* String(n).padStart(2, '0')
padStart2(n) == IF n < 10 THEN <<48>> \o NumberText(n) ELSE NumberText(n)

\* JavaScript's undefined, where a data URL may stand.
Undefined == [undefined |-> TRUE]

\* `data:${mime};base64,${payload}`
DataUrl(mime, payload) == [mime |-> mime, base64 |-> payload]

(***************************************************************************)
(* backendService: the stored collections.                                 *)
(***************************************************************************)
STORAGE_KEYS == [TEMPLATES |-> "signease_templates", CONTRACTS |-> "signease_contracts"]

\* Date.now() when the module was loaded: the clock of the initial state.
LoadTime == 3

\* The initial mock data of a module loaded at `loaded`.
DefaultTemplatesAt(loaded) ==
    << [id |-> [prefix |-> "tpl_", digits |-> <<0, 0, 1>>],
        name |-> <<54532, 47532>>, type |-> "MEMBERSHIP",
        createdAt |-> toISOString(loaded),
        fileSize |-> "1.2 MB", pageCount |-> 3],
       [id |-> [prefix |-> "tpl_", digits |-> <<0, 0, 2>>],
        name |-> <<49884, 49444>>, type |-> "WAIVER",
        createdAt |-> toISOString(loaded - 86400000),
        fileSize |-> "850 KB", pageCount |-> 1],
       [id |-> [prefix |-> "tpl_", digits |-> <<0, 0, 3>>],
        name |-> <<47112, 49832>>, type |-> "PT_AGREEMENT",
        createdAt |-> toISOString(loaded - 172800000),
        fileSize |-> "1.5 MB", pageCount |-> 2] >>

DEFAULT_TEMPLATES == DefaultTemplatesAt(LoadTime)

\* JSON.stringify of one record: a property whose value is undefined is left out.
StringifyRecord(r) ==
    IF "basePdfUrl" \in DOMAIN r /\ r.basePdfUrl = Undefined
    THEN [k \in DOMAIN r \ {"basePdfUrl"} |-> r[k]]
    ELSE r

\* JSON.stringify of a collection: the text that is stored.
JsonStringify(list) == [json |-> [i \in 1..Len(list) |-> StringifyRecord(list[i])]]
\* JSON.parse of a stored text: the records the text describes.
JsonParse(text) == text.json

\* localStorage.getItem of a key that was never set.
Null == [null |-> TRUE]

\* The size of a record in storage: one unit of metadata, one for the document
\* of a contract (pdfDataUrl), two for the uploaded file of a template (basePdfUrl).
RecordSize(r) ==
    1 + (IF "basePdfUrl" \in DOMAIN r THEN 2 ELSE 0)
      + (IF "pdfDataUrl" \in DOMAIN r THEN 1 ELSE 0)

RECURSIVE ListSize(_)
ListSize(list) == IF list = <<>> THEN 0 ELSE RecordSize(Head(list)) + ListSize(Tail(list))

\* The size of a stored value.
TextSize(text) == IF text = Null THEN 0 ELSE ListSize(text.json)

\* Storage in use once `key` holds `text`.
UsageWith(ls, key, text) ==
    TextSize(text)
    + (IF key = STORAGE_KEYS.TEMPLATES THEN TextSize(ls[STORAGE_KEYS.CONTRACTS])
                                       ELSE TextSize(ls[STORAGE_KEYS.TEMPLATES]))

\* localStorage.setItem(key, text) throws QuotaExceededError when the text does not fit.
SetItemThrows(ls, key, text) == UsageWith(ls, key, text) > Quota
SetItem(ls, key, text) == [ls EXCEPT ![key] = text]

\* getTemplates after its delay: whether the seeding write throws, the storage it
\* leaves, the value it resolves with.
GetTemplatesThrows(ls) ==
    /\ ls[STORAGE_KEYS.TEMPLATES] = Null
    /\ SetItemThrows(ls, STORAGE_KEYS.TEMPLATES, JsonStringify(DEFAULT_TEMPLATES))
\* A variant that writes the defaults on every access.
GetTemplatesStorage_Reseeding(ls) ==
    IF GetTemplatesThrows(ls) THEN ls
    ELSE SetItem(ls, STORAGE_KEYS.TEMPLATES, JsonStringify(DEFAULT_TEMPLATES))

GetTemplatesStorage(ls) ==
    IF ls[STORAGE_KEYS.TEMPLATES] = Null /\ ~GetTemplatesThrows(ls)
    THEN SetItem(ls, STORAGE_KEYS.TEMPLATES, JsonStringify(DEFAULT_TEMPLATES))
    ELSE ls
GetTemplatesValue(ls) ==
    IF ls[STORAGE_KEYS.TEMPLATES] = Null
    THEN DEFAULT_TEMPLATES
    ELSE JsonParse(ls[STORAGE_KEYS.TEMPLATES])

\* getSignedContracts after its delay.
GetSignedContractsValue(ls) ==
    IF ls[STORAGE_KEYS.CONTRACTS] = Null
    THEN <<>>
    ELSE JsonParse(ls[STORAGE_KEYS.CONTRACTS])

\* text.includes(sub), text.indexOf(sub), text.replace(sub, '')
StartsAt(text, i, sub) ==
    /\ i + Len(sub) - 1 <= Len(text)
    /\ \A j \in 1..Len(sub) : text[i + j - 1] = sub[j]
Includes(text, sub) == \E i \in 1..(Len(text) + 1) : StartsAt(text, i, sub)
IndexOf(text, sub) ==
    CHOOSE i \in 1..(Len(text) + 1) :
        StartsAt(text, i, sub) /\ \A j \in 1..(i - 1) : ~StartsAt(text, j, sub)
RemoveFirst(text, sub) ==
    IF Includes(text, sub)
    THEN SubSeq(text, 1, IndexOf(text, sub) - 1)
         \o SubSeq(text, IndexOf(text, sub) + Len(sub), Len(text))
    ELSE text

\* String.prototype.toLowerCase on the letters A-Z.
toLowerCase(text) ==
    [i \in 1..Len(text) |-> IF text[i] >= 65 /\ text[i] <= 90 THEN text[i] + 32 ELSE text[i]]

\* A searchContracts that lower-cases neither side.
searchContracts_CaseSensitive(query, contracts) ==
    LET Test(c) == \/ Includes(c.signerName, query)
                   \/ Includes(c.signerPhone, query)
                   \/ Includes(c.templateName, query)
    IN SelectSeq(contracts, Test)

\* A searchContracts that finds nothing when nothing is typed.
searchContracts_BlankFindsNothing(query, contracts) ==
    LET Test(c) == /\ query # <<>>
                   /\ \/ Includes(toLowerCase(c.signerName), toLowerCase(query))
                      \/ Includes(c.signerPhone, query)
                      \/ Includes(toLowerCase(c.templateName), toLowerCase(query))
    IN SelectSeq(contracts, Test)

\* A searchContracts that looks at the names only.
searchContracts_NamesOnly(query, contracts) ==
    LET Test(c) == \/ Includes(toLowerCase(c.signerName), toLowerCase(query))
                   \/ Includes(toLowerCase(c.templateName), toLowerCase(query))
    IN SelectSeq(contracts, Test)

\* contracts.filter(c => c.signerName.toLowerCase().includes(lowerQ) ||
\*     c.signerPhone.includes(query) || c.templateName.toLowerCase().includes(lowerQ))
searchContracts(query, contracts) ==
    LET lowerQ == toLowerCase(query)
        Test(c) == \/ Includes(toLowerCase(c.signerName), lowerQ)
                   \/ Includes(c.signerPhone, query)
                   \/ Includes(toLowerCase(c.templateName), lowerQ)
    IN SelectSeq(contracts, Test)

(***************************************************************************)
(* pdfService.                                                             *)
(***************************************************************************)
\* /^[\x00-\x7F]*$/.test(text)
isAscii(text) == \A i \in 1..Len(text) : text[i] <= 127

sanitizeForPdf(text, fallback) == IF isAscii(text) THEN text ELSE fallback

\* "Electronic Contract Agreement", "Member", "[Address on File]"
FallbackTitle == <<69, 108, 101, 99, 116, 114, 111, 110, 105, 99, 32, 67, 111, 110, 116, 114, 97, 99, 116, 32, 65, 103, 114, 101, 101, 109, 101, 110, 116>>
FallbackName == <<77, 101, 109, 98, 101, 114>>
FallbackAddress == <<91, 65, 100, 100, 114, 101, 115, 115, 32, 111, 110, 32, 70, 105, 108, 101, 93>>
\* "(Signature Image Failed to Load)"
SignatureMarker == <<40, 83, 105, 103, 110, 97, 116, 117, 114, 101, 32, 73, 109, 97, 103, 101, 32, 70, 97, 105, 108, 101, 100, 32, 116, 111, 32, 76, 111, 97, 100, 41>>

\* String.prototype.toUpperCase on the letters a-z.
toUpperCase(text) ==
    [i \in 1..Len(text) |-> IF text[i] >= 97 /\ text[i] <= 122 THEN text[i] - 32 ELSE text[i]]

\* Helvetica (WinAnsi) has a glyph for the character; drawText throws without one.
CanEncode(c) == (c >= 32 /\ c <= 126) \/ (c >= 160 /\ c <= 255)
DrawTextThrows(text) == \E i \in 1..Len(text) : ~CanEncode(text[i])

\* The bytes of a PNG image, as the signature canvas produces them.
PngBytes == <<137, 80, 78, 71>>

\* Base64: the character of a six-bit value and the value of a character
\* (A-Z, a-z, 0-9, '+', '/').
B64Char(v) ==
    IF v < 26 THEN 65 + v ELSE IF v < 52 THEN 71 + v ELSE IF v < 62 THEN v - 4
    ELSE IF v = 62 THEN 43 ELSE 47
IsB64Char(c) ==
    (c >= 65 /\ c <= 90) \/ (c >= 97 /\ c <= 122) \/ (c >= 48 /\ c <= 57) \/ c = 43 \/ c = 47
B64Value(c) ==
    IF c >= 65 /\ c <= 90 THEN c - 65 ELSE IF c >= 97 /\ c <= 122 THEN c - 71
    ELSE IF c >= 48 /\ c <= 57 THEN c + 4 ELSE IF c = 43 THEN 62 ELSE 63

\* The base64 text of bytes, as toDataURL puts it after the comma.
RECURSIVE btoa(_)
btoa(bytes) ==
    IF bytes = <<>> THEN <<>>
    ELSE IF Len(bytes) = 1
    THEN <<B64Char(bytes[1] \div 4), B64Char((bytes[1] % 4) * 16), 61, 61>>
    ELSE IF Len(bytes) = 2
    THEN <<B64Char(bytes[1] \div 4), B64Char((bytes[1] % 4) * 16 + bytes[2] \div 16),
           B64Char((bytes[2] % 16) * 4), 61>>
    ELSE <<B64Char(bytes[1] \div 4), B64Char((bytes[1] % 4) * 16 + bytes[2] \div 16),
           B64Char((bytes[2] % 16) * 4 + bytes[3] \div 64), B64Char(bytes[3] % 64)>>
         \o btoa(SubSeq(bytes, 4, Len(bytes)))

\* window.atob of a text without white space: padding of a text whose length
\* is a multiple of four is removed; a character outside the alphabet or a
\* remaining length of 4n + 1 throws InvalidCharacterError.
Unpadded(text) ==
    IF Len(text) % 4 # 0 \/ text = <<>> THEN text
    ELSE IF text[Len(text)] # 61 THEN text
    ELSE IF text[Len(text) - 1] # 61 THEN SubSeq(text, 1, Len(text) - 1)
    ELSE SubSeq(text, 1, Len(text) - 2)
AtobThrows(text) ==
    \/ Len(Unpadded(text)) % 4 = 1
    \/ \E i \in 1..Len(Unpadded(text)) : ~IsB64Char(Unpadded(text)[i])
RECURSIVE Decoded(_)
Decoded(data) ==
    IF Len(data) < 2 THEN <<>>
    ELSE LET v == [i \in 1..4 |-> IF i <= Len(data) THEN B64Value(data[i]) ELSE 0]
             three == <<v[1] * 4 + v[2] \div 16, (v[2] % 16) * 16 + v[3] \div 4, (v[3] % 4) * 64 + v[4]>>
         IN IF Len(data) >= 4 THEN three \o Decoded(SubSeq(data, 5, Len(data)))
            ELSE SubSeq(three, 1, Len(data) - 1)
atob(text) == Decoded(Unpadded(text))

\* The try block of the signature: window.atob(signatureDataUrl.split(',')[1])
\* throws, or pdfDoc.embedPng throws because the bytes are no PNG image.
EmbedPngThrows(signatureDataUrl) ==
    \/ AtobThrows(signatureDataUrl.base64)
    \/ atob(signatureDataUrl.base64) # PngBytes

\* The texts handed to page.drawText before the signature block.
DrawnTexts(template, s) ==
    << toUpperCase(sanitizeForPdf(template.name, FallbackTitle)),
       sanitizeForPdf(s.name, FallbackName),
       s.phone, s.email, s.dob,
       sanitizeForPdf(s.address, FallbackAddress) >>

\* A variant without the try block around the signature: a signature that cannot
\* be decoded or embedded makes synthesis fail.
GeneratePdfThrows_NoInnerTry(template, s, signatureDataUrl) ==
    \/ \E i \in 1..Len(DrawnTexts(template, s)) : DrawTextThrows(DrawnTexts(template, s)[i])
    \/ signatureDataUrl # Null /\ EmbedPngThrows(signatureDataUrl)

\* A variant in which no text makes synthesis fail.
GeneratePdfThrows_Never(template, s, signatureDataUrl) == FALSE

\* generateContractPDF rejects: a drawText call threw (the outer catch rethrows).
GeneratePdfThrows(template, s, signatureDataUrl) ==
    \E i \in 1..Len(DrawnTexts(template, s)) : DrawTextThrows(DrawnTexts(template, s)[i])

\* The page generateContractPDF builds.
PdfPage(template, s, signatureDataUrl) ==
    [title |-> toUpperCase(sanitizeForPdf(template.name, FallbackTitle)),
     member |-> sanitizeForPdf(s.name, FallbackName),
     phone |-> s.phone,
     email |-> s.email,
     dob |-> s.dob,
     address |-> sanitizeForPdf(s.address, FallbackAddress),
     signature |-> IF signatureDataUrl = Null THEN <<>>
                   ELSE IF EmbedPngThrows(signatureDataUrl) THEN SignatureMarker
                   ELSE atob(signatureDataUrl.base64),
     signedBy |-> IF signatureDataUrl = Null THEN <<>>
                  ELSE sanitizeForPdf(s.name, FallbackName)]

\* The data URL generateContractPDF resolves with.
generateContractPDF(template, s, signatureDataUrl) ==
    DataUrl("application/pdf", PdfPage(template, s, signatureDataUrl))

(***************************************************************************)
(* ContractWizard: validation.                                             *)
(***************************************************************************)
\* \s of a regular expression
IsSpace(c) ==
    \/ c \in {9, 10, 11, 12, 13, 32, 160, 5760, 8232, 8233, 8239, 8287, 12288, 65279}
    \/ (c >= 8192 /\ c <= 8202)

\* [^\s@]+ matches text[from..to]
IsLabel(text, from, to) ==
    /\ from <= to
    /\ \A i \in from..to : ~IsSpace(text[i]) /\ text[i] # 64

\* /^[^\s@]+@[^\s@]+\.[^\s@]+$/.test(email)
isValidEmail(email) ==
    \E at \in 1..Len(email) : \E dot \in 1..Len(email) :
        /\ email[at] = 64
        /\ email[dot] = 46
        /\ at < dot
        /\ IsLabel(email, 1, at - 1)
        /\ IsLabel(email, at + 1, dot - 1)
        /\ IsLabel(email, dot + 1, Len(email))

\* !!text
Truthy(text) == text # <<>>

InitialSigner == [name |-> Empty, phone |-> Empty, email |-> Empty, address |-> Empty, dob |-> Empty]

\* A validation that asks of the email only that it is not empty.
isStepValidAt_AnyEmail(step, tpl, s, sig, agr) ==
    CASE step = 1 -> tpl # Null
      [] step = 2 -> Truthy(s.name) /\ Truthy(s.phone) /\ Truthy(s.email) /\ Truthy(s.address)
      [] step = 3 -> sig # Null /\ agr
      [] OTHER -> FALSE

isStepValidAt(step, tpl, s, sig, agr) ==
    CASE step = 1 -> tpl # Null
      [] step = 2 -> Truthy(s.name) /\ Truthy(s.phone) /\ isValidEmail(s.email) /\ Truthy(s.address)
      [] step = 3 -> sig # Null /\ agr
      [] OTHER -> FALSE

VARIABLES
    clock,            \* Date.now()
    localStorage,     \* window.localStorage: key -> stored text or Null
    network,          \* bodies of the POST /api/contracts requests awaiting a response
    console,          \* the arguments of the last call that wrote to the console
    view,             \* App: 'DASHBOARD' | 'WIZARD'
    showSuccessToast, \* App
    currentStep,      \* ContractWizard
    loading,          \* ContractWizard
    templates,        \* ContractWizard: the loaded template list
    selectedTemplate, \* ContractWizard: Null or a template
    signer,           \* ContractWizard
    agreed,           \* ContractWizard
    signature,        \* ContractWizard: Null or a data URL
    pad,              \* SignaturePad: [mounted, drawn, timer]
    reads,            \* getTemplates calls of components, in their delay(300)
    dashTemplates,    \* AdminDashboard: templates
    tasks,            \* handleSign invocations that have not settled
    uploads,          \* handleFileChange invocations that have not settled
    request,          \* Null, or a service function called on its own: arguments and result
    contracts,        \* AdminDashboard: contracts
    isZipping,        \* AdminDashboard: Null, or [groupKey |-> the key of the group being zipped]
    zips,             \* handleDownloadZip invocations awaiting zip.generateAsync
    exports           \* what the export handlers showed or downloaded, oldest first

vars == <<clock, localStorage, network, console, view, showSuccessToast,
          currentStep, loading, templates, selectedTemplate, signer, agreed,
          signature, pad, reads, dashTemplates, tasks, uploads, request,
          contracts, isZipping, zips, exports>>

(***************************************************************************)
(* Calls in progress.                                                      *)
(***************************************************************************)
\* A pending getTemplates call; `live` while the component that awaits it is mounted.
Read(owner, now) == [owner |-> owner, live |-> TRUE, at |-> now]

\* The reads that can still have an effect.  Timers of equal delay fire in the
\* order they were set, so the oldest read runs first; a read whose caller is
\* unmounted sets no state, and seeds the storage only if it is the oldest.
NormalReads(rs, ls) ==
    SelectSeq([i \in 1..Len(rs) |-> [r |-> rs[i], first |-> i = 1]],
              LAMBDA e : e.r.live \/ (e.first /\ ls[STORAGE_KEYS.TEMPLATES] = Null))

ReadsOf(rs, ls) == [i \in 1..Len(NormalReads(rs, ls)) |-> NormalReads(rs, ls)[i].r]

\* The component `owner` unmounts: what it awaits no longer sets its state.
Orphan(rs, owner) ==
    [i \in 1..Len(rs) |-> IF rs[i].owner = owner THEN [rs[i] EXCEPT !.live = FALSE] ELSE rs[i]]

\* The invocations `ts` (a bag) once their component has unmounted.
Unmounted(ts) ==
    LET off(t) == [t EXCEPT !.mounted = FALSE]
        on(t) == [t EXCEPT !.mounted = TRUE]
        count(t) == IF t \in DOMAIN ts THEN ts[t] ELSE 0
    IN [u \in {off(t) : t \in DOMAIN ts} |-> count(u) + count(on(u))]

\* A bag with one more, one less copy of `e`.
Put(bag, e) == bag (+) SetToBag({e})
Take(bag, e) == bag (-) SetToBag({e})

\* The wizard's state when it is not on screen (its useState initial values).
WizardReset ==
    /\ currentStep' = 1
    /\ loading' = FALSE
    /\ templates' = <<>>
    /\ selectedTemplate' = Null
    /\ signer' = InitialSigner
    /\ agreed' = FALSE
    /\ signature' = Null
    /\ pad' = [mounted |-> FALSE, drawn |-> FALSE, timer |-> FALSE]

wizardVars == <<currentStep, loading, templates, selectedTemplate, signer, agreed, signature, pad>>
appVars == <<view, showSuccessToast>>
exportVars == <<contracts, isZipping, zips, exports>>

(***************************************************************************)
(* The clock.                                                              *)
(***************************************************************************)
Tick ==
    /\ clock < LoadTime + MaxTicks
    /\ clock' = clock + 1
    /\ UNCHANGED <<localStorage, network, console, appVars, wizardVars, reads, dashTemplates, tasks, uploads, request, exportVars>>

(***************************************************************************)
(* App.                                                                    *)
(***************************************************************************)
\* onStartContract: setView('WIZARD'); the dashboard unmounts, the wizard mounts
\* and its effect calls backendService.getTemplates().
StartContract ==
    /\ view = "DASHBOARD"
    /\ view' = "WIZARD"
    /\ currentStep' = 1
    /\ loading' = FALSE
    /\ templates' = <<>>
    /\ selectedTemplate' = Null
    /\ signer' = InitialSigner
    /\ agreed' = FALSE
    /\ signature' = Null
    /\ pad' = [mounted |-> FALSE, drawn |-> FALSE, timer |-> FALSE]
    /\ reads' = ReadsOf(Append(Orphan(reads, "dashboard"), Read("wizard", clock)), localStorage)
    /\ dashTemplates' = <<>>
    /\ contracts' = <<>>
    /\ isZipping' = Null
    /\ uploads' = Unmounted(uploads)
    /\ zips' = Unmounted(zips)
    /\ UNCHANGED <<clock, localStorage, network, console, showSuccessToast, tasks, request, exports>>

\* setView('DASHBOARD') while the wizard is shown: the wizard unmounts, the
\* dashboard mounts and its effect calls refreshData.
ShowDashboard ==
    /\ view' = "DASHBOARD"
    /\ IF view = "WIZARD"
       THEN /\ WizardReset
            /\ reads' = ReadsOf(Append(Orphan(reads, "wizard"), Read("dashboard", clock)), localStorage)
            /\ dashTemplates' = <<>>
            /\ contracts' = <<>>
            /\ isZipping' = Null
       ELSE UNCHANGED <<wizardVars, reads, dashTemplates, contracts, isZipping>>

\* onCancel
Cancel ==
    /\ view = "WIZARD"
    /\ ShowDashboard
    /\ tasks' = Unmounted(tasks)
    /\ UNCHANGED <<clock, localStorage, network, console, showSuccessToast, uploads, request,
                   zips, exports>>

\* setTimeout(() => setShowSuccessToast(false), 3000): the oldest pending timer.
\* Every setShowSuccessToast(true) sets a timer, so one is pending while the toast shows.
ToastTimeout ==
    /\ showSuccessToast
    /\ showSuccessToast' = FALSE
    /\ UNCHANGED <<clock, localStorage, network, console, view, wizardVars, reads,
                   dashTemplates, tasks, uploads, request, exportVars>>

(***************************************************************************)
(* getTemplates called by a component: the call's delay(300) ends.  The    *)
(* dashboard calls it in refreshData next to searchContracts(search),      *)
(* whose timer was set in the same turn and fires just before; the two     *)
(* reads and the setContracts, setTemplates that follow are one step.      *)
(***************************************************************************)
\* AdminDashboard: the search box, in which nothing is typed.
search == <<>>

TemplatesRead ==
    /\ reads # <<>>
    /\ clock > Head(reads).at
    /\ LET r == Head(reads)
           ok == ~GetTemplatesThrows(localStorage)
       IN /\ localStorage' = GetTemplatesStorage(localStorage)
          /\ reads' = ReadsOf(Tail(reads), localStorage')
          /\ templates' = IF ok /\ r.live /\ r.owner = "wizard"
                          THEN GetTemplatesValue(localStorage) ELSE templates
          /\ dashTemplates' = IF ok /\ r.live /\ r.owner = "dashboard"
                              THEN GetTemplatesValue(localStorage) ELSE dashTemplates
          /\ contracts' = IF ok /\ r.live /\ r.owner = "dashboard"
                          THEN searchContracts(search, GetSignedContractsValue(localStorage))
                          ELSE contracts
    /\ UNCHANGED <<clock, network, console, appVars, currentStep, loading, selectedTemplate,
                   signer, agreed, signature, pad, tasks, uploads, request, isZipping, zips,
                   exports>>

(***************************************************************************)
(* ContractWizard: the form.                                               *)
(***************************************************************************)
\* What the operator may type into the step-2 form: a signer the wizard accepts,
\* one whose phone is written in Hangul, one whose email is no address.
Signers ==
    { [name |-> TxtKim, phone |-> TxtPhone, email |-> TxtEmail, address |-> TxtSeoul, dob |-> Empty],
      [name |-> TxtKim, phone |-> TxtHangulPhone, email |-> TxtEmail, address |-> TxtSeoul, dob |-> Empty],
      [name |-> TxtKim, phone |-> TxtPhone, email |-> TxtBad, address |-> TxtSeoul, dob |-> Empty] }

\* sigPad.getTrimmedCanvas().toDataURL('image/png')
PadDataUrl == DataUrl("image/png", btoa(PngBytes))

isStepValid == isStepValidAt(currentStep, selectedTemplate, signer, signature, agreed)

\* Step 1: onClick={() => setSelectedTemplate(tpl)}
SelectTemplate(tpl) ==
    /\ view = "WIZARD"
    /\ currentStep = 1
    /\ selectedTemplate' = tpl
    /\ UNCHANGED <<clock, localStorage, network, console, appVars, currentStep, loading, templates,
                   signer, agreed, signature, pad, reads, dashTemplates, tasks, uploads, request, exportVars>>

\* Step 2: the onChange handlers of the five inputs.
EditSigner(s) ==
    /\ view = "WIZARD"
    /\ currentStep = 2
    /\ signer' = s
    /\ UNCHANGED <<clock, localStorage, network, console, appVars, currentStep, loading, templates,
                   selectedTemplate, agreed, signature, pad, reads, dashTemplates, tasks, uploads, request, exportVars>>

\* Step 3: onChange={e => setAgreed(e.target.checked)}
ToggleAgreed ==
    /\ view = "WIZARD"
    /\ currentStep = 3
    /\ agreed' = ~agreed
    /\ UNCHANGED <<clock, localStorage, network, console, appVars, currentStep, loading, templates,
                   selectedTemplate, signer, signature, pad, reads, dashTemplates, tasks, uploads, request, exportVars>>

\* The pad of step 3 as it mounts and unmounts with the step.
PadAt(step) ==
    IF step = 3 THEN [mounted |-> TRUE, drawn |-> FALSE, timer |-> TRUE]
                ELSE [mounted |-> FALSE, drawn |-> FALSE, timer |-> FALSE]

\* setCurrentStep(prev => Math.min(3, prev + 1)), disabled={!isStepValid()}
NextStep ==
    /\ view = "WIZARD"
    /\ currentStep < 3
    /\ isStepValid
    /\ currentStep' = currentStep + 1
    /\ pad' = PadAt(currentStep')
    /\ UNCHANGED <<clock, localStorage, network, console, appVars, loading, templates, selectedTemplate,
                   signer, agreed, signature, reads, dashTemplates, tasks, uploads, request, exportVars>>

\* setCurrentStep(prev => Math.max(1, prev - 1)), disabled={currentStep === 1 || loading}
PrevStep ==
    /\ view = "WIZARD"
    /\ currentStep # 1
    /\ ~loading
    /\ currentStep' = currentStep - 1
    /\ pad' = PadAt(currentStep')
    /\ UNCHANGED <<clock, localStorage, network, console, appVars, loading, templates, selectedTemplate,
                   signer, agreed, signature, reads, dashTemplates, tasks, uploads, request, exportVars>>

(***************************************************************************)
(* SignaturePad.                                                           *)
(***************************************************************************)
\* handleEnd after a stroke: onEnd(toDataURL('image/png'))
PadStroke ==
    /\ pad.mounted
    /\ pad' = [pad EXCEPT !.drawn = TRUE]
    /\ signature' = PadDataUrl
    /\ UNCHANGED <<clock, localStorage, network, console, appVars, currentStep, loading, templates,
                   selectedTemplate, signer, agreed, reads, dashTemplates, tasks, uploads, request, exportVars>>

\* clear: onEnd(null)
PadClear ==
    /\ pad.mounted
    /\ pad' = [pad EXCEPT !.drawn = FALSE]
    /\ signature' = Null
    /\ UNCHANGED <<clock, localStorage, network, console, appVars, currentStep, loading, templates,
                   selectedTemplate, signer, agreed, reads, dashTemplates, tasks, uploads, request, exportVars>>

\* resizeCanvas, run by setTimeout(resizeCanvas, 100) after the mount
PadInitialResize ==
    /\ pad.mounted
    /\ pad.timer
    /\ pad' = [pad EXCEPT !.drawn = FALSE, !.timer = FALSE]
    /\ signature' = Null
    /\ UNCHANGED <<clock, localStorage, network, console, appVars, currentStep, loading, templates,
                   selectedTemplate, signer, agreed, reads, dashTemplates, tasks, uploads, request, exportVars>>

\* resizeCanvas, run by the window's resize event
PadWindowResize ==
    /\ pad.mounted
    /\ pad' = [pad EXCEPT !.drawn = FALSE]
    /\ signature' = Null
    /\ UNCHANGED <<clock, localStorage, network, console, appVars, currentStep, loading, templates,
                   selectedTemplate, signer, agreed, reads, dashTemplates, tasks, uploads, request, exportVars>>

(***************************************************************************)
(* ContractWizard.handleSign and backendService.saveSignedContract.        *)
(***************************************************************************)
\* The argument handleSign passes to saveSignedContract.
Draft(template, s, pdfDataUrl, now) ==
    [templateId |-> template.id,
     templateName |-> template.name,
     signerName |-> s.name,
     signerPhone |-> s.phone,
     signerEmail |-> s.email,
     signedAt |-> toISOString(now),
     pdfDataUrl |-> pdfDataUrl]

\* A variant that stamps the record COMPLETED.
NewContract_Completed(contract, now) ==
    [k \in DOMAIN contract \cup {"id", "status"} |->
        IF k = "id" THEN MakeId("cnt_", now)
        ELSE IF k = "status" THEN "COMPLETED"
        ELSE contract[k]]

\* { ...contract, id: `cnt_${Date.now()}`, status: 'SENT' }
NewContract(contract, now) ==
    [k \in DOMAIN contract \cup {"id", "status"} |->
        IF k = "id" THEN MakeId("cnt_", now)
        ELSE IF k = "status" THEN "SENT"
        ELSE contract[k]]

\* A variant that stores the new record in place of the collection.
WithNewContract_Alone(newContract, current) == <<newContract>>

\* A variant that adds the new record at the end.
WithNewContract_Appended(newContract, current) == current \o <<newContract>>

\* [newContract, ...current]
WithNewContract(newContract, current) == <<newContract>> \o current

\* A completion button that is not disabled while loading.
handleSign_WhileLoading ==
    /\ view = "WIZARD"
    /\ currentStep = 3
    /\ isStepValid
    /\ selectedTemplate # Null /\ signature # Null /\ agreed
    /\ BagCardinality(tasks) < MaxTasks
    /\ loading' = TRUE
    /\ tasks' = Put(tasks, [pc |-> "synth", mounted |-> TRUE,
                            template |-> selectedTemplate, signer |-> signer,
                            signature |-> signature,
                            draft |-> Null, newContract |-> Null])
    /\ UNCHANGED <<clock, localStorage, network, console, appVars, currentStep, templates,
                   selectedTemplate, signer, agreed, signature, pad, reads, dashTemplates, uploads, request, exportVars>>

\* The click on the completion button of step 3: up to the first await.
handleSign ==
    /\ view = "WIZARD"
    /\ currentStep = 3
    /\ isStepValid
    /\ ~loading
    /\ selectedTemplate # Null /\ signature # Null /\ agreed
    /\ BagCardinality(tasks) < MaxTasks
    /\ loading' = TRUE
    /\ tasks' = Put(tasks, [pc |-> "synth", mounted |-> TRUE,
                            template |-> selectedTemplate, signer |-> signer,
                            signature |-> signature,
                            draft |-> Null, newContract |-> Null])
    /\ UNCHANGED <<clock, localStorage, network, console, appVars, currentStep, templates,
                   selectedTemplate, signer, agreed, signature, pad, reads, dashTemplates, uploads, request, exportVars>>

\* A handleSign without its finally block.
SignFailed_NoFinally(t, error) ==
    /\ tasks' = Take(tasks, t)
    /\ console' = <<"Signing failed", error>>
    /\ loading' = loading

\* catch (error) { console.error("Signing failed", error); alert(...) }
\* finally { setLoading(false) } of handleSign: the invocation has settled.
SignFailed(t, error) ==
    /\ tasks' = Take(tasks, t)
    /\ console' = <<"Signing failed", error>>
    /\ loading' = IF t.mounted THEN FALSE ELSE loading

\* generateContractPDF settles.  Resolved: handleSign builds the draft and calls
\* saveSignedContract, which builds newContract and awaits getSignedContracts.
SynthesisDone(t) ==
    /\ t.pc = "synth"
    /\ IF GeneratePdfThrows(t.template, t.signer, t.signature)
       THEN SignFailed(t, "WinAnsi cannot encode")
       ELSE LET pdfDataUrl == generateContractPDF(t.template, t.signer, t.signature)
                contract == Draft(t.template, t.signer, pdfDataUrl, clock)
            IN /\ tasks' = Put(Take(tasks, t),
                               [pc |-> "delay", mounted |-> t.mounted,
                                template |-> Null, signer |-> Null, signature |-> Null,
                                draft |-> contract,
                                newContract |-> NewContract(contract, clock)])
               /\ UNCHANGED <<loading, console, exportVars>>
    /\ UNCHANGED <<clock, localStorage, network, appVars, currentStep, templates,
                   selectedTemplate, signer, agreed, signature, pad, reads, dashTemplates, uploads, request, exportVars>>

\* A variant that starts the POST although setItem threw.
WriteRejected_ForwardAnyway(t) ==
    /\ network' = Put(network, StringifyRecord(t.newContract))
    /\ console' = <<"Attemping to send to backend server...">>
    /\ tasks' = Put(Take(tasks, t), [t EXCEPT !.pc = "fetch"])
    /\ UNCHANGED <<localStorage, loading, exportVars>>

\* A variant that, when setItem threw, stores the new record alone before it gives up.
WriteRejected_KeepNewest(t) ==
    /\ SignFailed(t, "QuotaExceededError")
    /\ localStorage' = SetItem(localStorage, STORAGE_KEYS.CONTRACTS, JsonStringify(<<t.newContract>>))
    /\ UNCHANGED network

\* localStorage.setItem throws in saveSignedContract: nothing is stored, the
\* rejection skips the fetch and reaches the catch of handleSign.
WriteRejected(t) ==
    /\ SignFailed(t, "QuotaExceededError")
    /\ UNCHANGED <<localStorage, network, exportVars>>

\* The delay(300) of getSignedContracts ends: the collection is read, the new
\* record is prepended and written, and the POST to /api/contracts is started.
SaveLocal(t) ==
    /\ t.pc = "delay"
    /\ clock > t.draft.signedAt.iso
    /\ LET current == GetSignedContractsValue(localStorage)
           updated == JsonStringify(WithNewContract(t.newContract, current))
       IN IF SetItemThrows(localStorage, STORAGE_KEYS.CONTRACTS, updated)
          THEN WriteRejected(t)
          ELSE /\ localStorage' = SetItem(localStorage, STORAGE_KEYS.CONTRACTS, updated)
               /\ network' = Put(network, StringifyRecord(t.newContract))
               /\ console' = <<"Attemping to send to backend server...">>
               /\ tasks' = Put(Take(tasks, t), [t EXCEPT !.pc = "fetch"])
               /\ UNCHANGED loading
    /\ UNCHANGED <<clock, appVars, currentStep, templates, selectedTemplate, signer, agreed,
                   signature, pad, reads, dashTemplates, uploads, request, exportVars>>

\* What the relay (or the network) answers to a POST: response.ok, a response
\* that is not ok, a rejected fetch.
Outcomes == {"ok", "error", "unreachable"}

\* What saveSignedContract writes to the console for an outcome.
ForwardLog(outcome) ==
    CASE outcome = "ok" -> <<"Successfully sent to backend server for emailing.">>
      [] outcome = "error" -> <<"Backend server returned error:", "response.text()">>
      [] OTHER -> <<"Backend server is not reachable. Email might not be sent.", "TypeError">>

\* handleContractComplete: setView('DASHBOARD'), setShowSuccessToast(true), setTimeout
handleContractComplete ==
    /\ ShowDashboard
    /\ showSuccessToast' = TRUE

\* A variant in which saveSignedContract rejects when the relay does not answer ok.
Respond_Checked(t, outcome) ==
    /\ t.pc = "fetch"
    /\ network' = Take(network, StringifyRecord(t.newContract))
    /\ IF outcome = "ok"
       THEN /\ console' = ForwardLog(outcome)
            /\ handleContractComplete
            /\ tasks' = Unmounted(Take(tasks, t))
       ELSE /\ SignFailed(t, "forward failed")
            /\ UNCHANGED <<appVars, currentStep, templates, selectedTemplate, signer, agreed,
                           signature, pad, reads, dashTemplates, contracts, isZipping>>
    /\ UNCHANGED <<clock, localStorage, uploads, request, zips, exports>>

\* A variant that marks the stored records COMPLETED when the relay answers ok.
Respond_MarksCompleted(t, outcome) ==
    /\ t.pc = "fetch"
    /\ network' = Take(network, StringifyRecord(t.newContract))
    /\ console' = ForwardLog(outcome)
    /\ handleContractComplete
    /\ tasks' = Unmounted(Take(tasks, t))
    /\ localStorage' =
           IF outcome = "ok"
           THEN SetItem(localStorage, STORAGE_KEYS.CONTRACTS,
                        JsonStringify([i \in 1..Len(GetSignedContractsValue(localStorage)) |->
                            [GetSignedContractsValue(localStorage)[i] EXCEPT !.status = "COMPLETED"]]))
           ELSE localStorage
    /\ UNCHANGED <<clock, uploads, request, zips, exports>>

\* The fetch settles, which saveSignedContract only logs; it returns newContract
\* and handleSign calls onComplete, then setLoading(false).
Respond(t, outcome) ==
    /\ t.pc = "fetch"
    /\ network' = Take(network, StringifyRecord(t.newContract))
    /\ console' = ForwardLog(outcome)
    /\ handleContractComplete
    /\ tasks' = Unmounted(Take(tasks, t))
    /\ UNCHANGED <<clock, localStorage, uploads, request, zips, exports>>

(***************************************************************************)
(* AdminDashboard.handleFileChange and backendService.uploadTemplate.      *)
(***************************************************************************)
\* The template type handleFileChange derives from the file name.
TemplateType(fileName) ==
    LET lowerName == toLowerCase(fileName)
    IN IF Includes(lowerName, <<44032, 51077>>) \/ Includes(lowerName, <<109, 101, 109, 98, 101, 114>>) THEN "MEMBERSHIP"
       ELSE IF Includes(lowerName, <<46041, 51032>>) \/ Includes(lowerName, <<119, 97, 105, 118, 101, 114>>) THEN "WAIVER"
       ELSE IF Includes(lowerName, <<47112, 49832>>) \/ Includes(lowerName, <<112, 116>>) THEN "PT_AGREEMENT"
       ELSE "OTHER"

\* The files the administrator may choose: "PT.pdf" (a PDF of two pages) and
\* "a.png" (not a PDF).
Files ==
    { [name |-> <<80, 84, 46, 112, 100, 102>>, type |-> "application/pdf", formattedSize |-> "0.5 KB",
       pageCount |-> 2, bytes |-> <<37, 80, 68, 70>>],
      [name |-> <<97, 46, 112, 110, 103>>, type |-> "image/png", formattedSize |-> "0.1 KB",
       pageCount |-> 0, bytes |-> PngBytes] }

\* The argument handleFileChange passes to uploadTemplate.
TemplateDraft(file) ==
    [name |-> RemoveFirst(file.name, <<46, 112, 100, 102>>),
     type |-> TemplateType(file.name),
     fileSize |-> file.formattedSize,
     pageCount |-> file.pageCount,
     basePdfUrl |-> DataUrl(file.type, file.bytes)]

\* { ...template, id: `tpl_${Date.now()}`, createdAt, fileSize: ... || '1.0 MB', pageCount: ... || 1 }
NewTemplate(template, now) ==
    [k \in DOMAIN template \cup {"id", "createdAt"} |->
        IF k = "id" THEN MakeId("tpl_", now)
        ELSE IF k = "createdAt" THEN toISOString(now)
        ELSE IF k = "fileSize" THEN (IF template.fileSize = "" THEN "1.0 MB" ELSE template.fileSize)
        ELSE IF k = "pageCount" THEN (IF template.pageCount = 0 THEN 1 ELSE template.pageCount)
        ELSE template[k]]

\* An uploadTemplate that adds the new template after the stored ones.
WithNewTemplate_Appended(newTemplate, current) == current \o <<newTemplate>>

\* [newTemplate, ...current]
WithNewTemplate(newTemplate, current) == <<newTemplate>> \o current

\* The retry of uploadTemplate, had it written the same record a second time.
FallbackTemplate_SameRecord(newTemplate) == newTemplate

\* { ...newTemplate, basePdfUrl: undefined }
FallbackTemplate(newTemplate) == [newTemplate EXCEPT !.basePdfUrl = Undefined]

\* The file input's onChange: a file that is no PDF is refused with an alert and
\* nothing else happens; a PDF is read and handed to uploadTemplate, which
\* starts with delay(500).
handleFileChange(file) ==
    /\ view = "DASHBOARD"
    /\ file.type = "application/pdf"
    /\ BagCardinality(uploads) < MaxUploads
    /\ uploads' = Put(uploads, [pc |-> "delay", mounted |-> TRUE, at |-> clock,
                                template |-> TemplateDraft(file), newTemplate |-> Null])
    /\ UNCHANGED <<clock, localStorage, network, console, appVars, wizardVars, reads,
                   dashTemplates, tasks, request, exportVars>>

\* The delay(500) of uploadTemplate ends: newTemplate is built and getTemplates called.
UploadPrepare(u) ==
    /\ u.pc = "delay"
    /\ clock > u.at
    /\ uploads' = Put(Take(uploads, u),
                      [u EXCEPT !.pc = "read", !.at = clock,
                                !.newTemplate = NewTemplate(u.template, clock)])
    /\ UNCHANGED <<clock, localStorage, network, console, appVars, wizardVars, reads,
                   dashTemplates, tasks, request, exportVars>>

\* catch (error) { console.error('File upload failed:', error); alert(...) } of
\* handleFileChange: the invocation has settled.
UploadFailed(u, error) ==
    /\ uploads' = Take(uploads, u)
    /\ console' = <<"File upload failed:", error>>

\* The delay(300) of the inner getTemplates ends: the collection is read (and
\* seeded), the new template is prepended and written; a throwing setItem is
\* retried without basePdfUrl; a second throw rejects uploadTemplate.  Resolved:
\* handleFileChange calls refreshData.
UploadWrite(u) ==
    /\ u.pc = "read"
    /\ clock > u.at
    /\ LET seeded == GetTemplatesStorage(localStorage)
           current == GetTemplatesValue(localStorage)
           updated == JsonStringify(WithNewTemplate(u.newTemplate, current))
           fallbackUpdated ==
               JsonStringify(WithNewTemplate(FallbackTemplate(u.newTemplate), current))
           refresh == Put(Take(uploads, u), [u EXCEPT !.pc = "refresh", !.at = clock])
       IN IF GetTemplatesThrows(localStorage)
          THEN /\ localStorage' = localStorage
               /\ UploadFailed(u, "QuotaExceededError")
          ELSE IF ~SetItemThrows(seeded, STORAGE_KEYS.TEMPLATES, updated)
          THEN /\ localStorage' = SetItem(seeded, STORAGE_KEYS.TEMPLATES, updated)
               /\ uploads' = refresh
               /\ UNCHANGED console
          ELSE IF ~SetItemThrows(seeded, STORAGE_KEYS.TEMPLATES, fallbackUpdated)
          THEN /\ localStorage' = SetItem(seeded, STORAGE_KEYS.TEMPLATES, fallbackUpdated)
               /\ uploads' = refresh
               /\ console' = <<"LocalStorage quota exceeded. Saving template without PDF body.">>
          ELSE /\ localStorage' = seeded
               /\ UploadFailed(u, "QuotaExceededError")
    /\ reads' = ReadsOf(reads, localStorage')
    /\ UNCHANGED <<clock, network, appVars, wizardVars, dashTemplates, tasks, request, exportVars>>

\* await refreshData() of handleFileChange settles: setTemplates, then the alert
\* that reports the upload.
UploadRefreshed(u) ==
    /\ u.pc = "refresh"
    /\ clock > u.at
    /\ dashTemplates' = IF u.mounted THEN GetTemplatesValue(localStorage) ELSE dashTemplates
    /\ contracts' = IF u.mounted
                    THEN searchContracts(search, GetSignedContractsValue(localStorage))
                    ELSE contracts
    /\ uploads' = Take(uploads, u)
    /\ UNCHANGED <<clock, localStorage, network, console, appVars, wizardVars, reads, tasks,
                   request, isZipping, zips, exports>>

(***************************************************************************)
(* AdminDashboard: the contracts grouped by month.                         *)
(***************************************************************************)
\* getGroupKey: `${year}-${month}`
getGroupKey(dateStr) ==
    NumberText(getFullYear(dateStr)) \o <<45>> \o padStart2(getMonth(dateStr) + 1)

\* contracts.reduce((groups, contract) => { ...; groups[key].push(contract) }, {})
RECURSIVE groupedContracts(_)
groupedContracts(list) ==
    IF list = <<>> THEN [k \in {} |-> <<>>]
    ELSE LET groups == groupedContracts(SubSeq(list, 1, Len(list) - 1))
             contract == list[Len(list)]
             key == getGroupKey(contract.signedAt)
         IN [k \in DOMAIN groups \cup {key} |->
                IF k # key THEN groups[k]
                ELSE IF key \in DOMAIN groups THEN Append(groups[key], contract)
                ELSE <<contract>>]

\* The order of Array.prototype.sort() on strings: by code units.
LexLess(a, b) ==
    \E i \in 1..(Len(a) + 1) :
        /\ i <= Len(b)
        /\ \A j \in 1..(i - 1) : a[j] = b[j]
        /\ i > Len(a) \/ a[i] < b[i]

RECURSIVE sort(_)
sort(keys) ==
    IF keys = {} THEN <<>>
    ELSE LET least == CHOOSE k \in keys : \A o \in keys \ {k} : LexLess(k, o)
         IN <<least>> \o sort(keys \ {least})

reverse(list) == [i \in 1..Len(list) |-> list[Len(list) + 1 - i]]

\* A variant that lists the oldest month first.
sortedGroupKeys_Ascending(list) == sort(DOMAIN groupedContracts(list))

\* Object.keys(groupedContracts).sort().reverse()
sortedGroupKeys(list) == reverse(sort(DOMAIN groupedContracts(list)))

(***************************************************************************)
(* AdminDashboard: the exports.                                            *)
(***************************************************************************)
\* new Date(dateStr).toLocaleString() in the ko-KR locale of the device:
\* "1970. 1. 1. 오전 9:00:00".
toLocaleString(date) ==
    LET dayIndex == LocalTime(date) \div 86400000
        ms == LocalTime(date) % 86400000
        day == IF dayIndex >= 0 THEN dayIndex + 1 ELSE 32 + dayIndex
        hour == ms \div 3600000
        minute == (ms % 3600000) \div 60000
        second == (ms % 60000) \div 1000
    IN NumberText(getFullYear(date)) \o <<46, 32>> \o NumberText(getMonth(date) + 1) \o <<46, 32>>
       \o NumberText(day) \o <<46, 32>>
       \o (IF hour < 12 THEN <<50724, 51204>> ELSE <<50724, 54980>>) \o <<32>>
       \o NumberText(IF hour % 12 = 0 THEN 12 ELSE hour % 12) \o <<58>>
       \o padStart2(minute) \o <<58>> \o padStart2(second)

\* date.toISOString().slice(0, 10): the UTC date, 1969-12-DD or 1970-01-DD.
IsoDate(date) ==
    LET dayIndex == date.iso \div 86400000
    IN IF dayIndex >= 0
       THEN <<49, 57, 55, 48, 45, 48, 49, 45>> \o padStart2(dayIndex + 1)
       ELSE <<49, 57, 54, 57, 45, 49, 50, 45>> \o padStart2(32 + dayIndex)

\* list.join(sep)
RECURSIVE Join(_, _)
Join(list, sep) ==
    IF list = <<>> THEN <<>>
    ELSE IF Len(list) = 1 THEN list[1]
    ELSE list[1] \o sep \o Join(Tail(list), sep)

\* ['Contract ID', 'Template', 'Signer Name', 'Phone', 'Email', 'Signed Date']
headers ==
    << <<67, 111, 110, 116, 114, 97, 99, 116, 32, 73, 68>>,
       <<84, 101, 109, 112, 108, 97, 116, 101>>,
       <<83, 105, 103, 110, 101, 114, 32, 78, 97, 109, 101>>,
       <<80, 104, 111, 110, 101>>,
       <<69, 109, 97, 105, 108>>,
       <<83, 105, 103, 110, 101, 100, 32, 68, 97, 116, 101>> >>

\* The row of a contract.
CsvRow(c) ==
    <<IdText(c.id), c.templateName, c.signerName, c.signerPhone, c.signerEmail,
      toLocaleString(c.signedAt)>>

\* A variant that doubles the quotes inside an item.
Quoted_Escaping(item) ==
    <<34>> \o Join([i \in 1..Len(item) |-> IF item[i] = 34 THEN <<34, 34>> ELSE <<item[i]>>], <<>>)
    \o <<34>>

\* `"${item}"`
Quoted(item) == <<34>> \o item \o <<34>>

\* csvContent
csvContent(list) ==
    Join(<<Join(headers, <<44>>)>>
         \o [i \in 1..Len(list) |-> Join([j \in 1..6 |-> Quoted(CsvRow(list[i])[j])], <<44>>)],
         <<10>>)

\* `Contracts_Export_${new Date().toISOString().slice(0,10)}.csv`
CsvFileName(now) == <<67, 111, 110, 116, 114, 97, 99, 116, 115, 95, 69, 120, 112, 111, 114, 116, 95>> \o IsoDate(toISOString(now)) \o <<46, 99, 115, 118>>

\* Whether the export log has room for one more export.
MaxExports == 2
MayExport == Len(exports) + BagCardinality(zips) < MaxExports

\* A variant that downloads a file holding the header row when there is no contract.
handleExportCSV_HeaderOnly ==
    /\ view = "DASHBOARD"
    /\ MayExport
    /\ exports' = Append(exports, [download |-> CsvFileName(clock),
                                   content |-> <<65279>> \o csvContent(contracts)])
    /\ UNCHANGED <<clock, localStorage, network, console, appVars, wizardVars, reads,
                   dashTemplates, tasks, uploads, request, contracts, isZipping, zips>>

\* handleExportCSV: an alert when there is no contract, else the download of
\* '﻿' + csvContent.
handleExportCSV ==
    /\ view = "DASHBOARD"
    /\ MayExport
    /\ exports' = Append(exports,
                         IF contracts = <<>>
                         THEN [alert |-> "no contract data to export"]
                         ELSE [download |-> CsvFileName(clock),
                               content |-> <<65279>> \o csvContent(contracts)])
    /\ UNCHANGED <<clock, localStorage, network, console, appVars, wizardVars, reads,
                   dashTemplates, tasks, uploads, request, contracts, isZipping, zips>>

\* contract.pdfDataUrl.split(',')[1] of a contract that has a pdfDataUrl, and
\* whether it is truthy.
Base64Data(contract) == contract.pdfDataUrl.base64
HasPayload(contract) == Base64Data(contract) # <<>>

\* `${contract.signerName}_${contract.templateName}_${contract.id.slice(-4)}.pdf`
ZipFileName(contract) ==
    LET id == IdText(contract.id)
        slice == IF Len(id) <= 4 THEN id ELSE SubSeq(id, Len(id) - 3, Len(id))
    IN contract.signerName \o <<95>> \o contract.templateName \o <<95>> \o slice
       \o <<46, 112, 100, 102>>

\* The folder after the forEach: folder.file(fileName, base64Data) adds an
\* entry, or replaces the entry of that name; count counts the calls.
RECURSIVE ZipFolder(_)
ZipFolder(groupContracts) ==
    IF groupContracts = <<>> THEN [files |-> {}, count |-> 0]
    ELSE LET before == ZipFolder(SubSeq(groupContracts, 1, Len(groupContracts) - 1))
             contract == groupContracts[Len(groupContracts)]
         IN IF HasPayload(contract)
            THEN [files |-> {f \in before.files : f.name # ZipFileName(contract)}
                            \cup {[name |-> ZipFileName(contract), data |-> Base64Data(contract)]},
                  count |-> before.count + 1]
            ELSE before

\* `Contracts_${groupKey}`
FolderName(groupKey) == <<67, 111, 110, 116, 114, 97, 99, 116, 115, 95>> \o groupKey

\* handleDownloadZip up to its await: setIsZipping(groupKey), the folder is
\* filled; with no entry the handler alerts, returns and its finally sets
\* isZipping back to null in the same turn; else zip.generateAsync is awaited.
\* The button is disabled while isZipping is set.
handleDownloadZip(groupKey, groupContracts) ==
    /\ view = "DASHBOARD"
    /\ isZipping = Null
    /\ MayExport
    /\ IF ZipFolder(groupContracts).count = 0
       THEN /\ exports' = Append(exports, [alert |-> "no PDF data to download"])
            /\ UNCHANGED <<isZipping, zips>>
       ELSE /\ isZipping' = [groupKey |-> groupKey]
            /\ zips' = Put(zips, [groupKey |-> groupKey,
                                  groupContracts |-> groupContracts,
                                  files |-> ZipFolder(groupContracts).files,
                                  mounted |-> TRUE])
            /\ UNCHANGED exports
    /\ UNCHANGED <<clock, localStorage, network, console, appVars, wizardVars, reads,
                   dashTemplates, tasks, uploads, request, contracts>>

\* A variant without the finally: isZipping is reset only after a download.
ZipGenerated_NoFinally(z, ok) ==
    /\ zips' = Take(zips, z)
    /\ exports' = Append(exports,
                         IF ok THEN [download |-> FolderName(z.groupKey) \o <<46, 122, 105, 112>>,
                                     folder |-> FolderName(z.groupKey),
                                     files |-> z.files]
                         ELSE [alert |-> "error while creating the archive"])
    /\ console' = IF ok THEN console ELSE <<"ZIP Generation failed:", "Error">>
    /\ isZipping' = IF z.mounted /\ ok THEN Null ELSE isZipping
    /\ UNCHANGED <<clock, localStorage, network, appVars, wizardVars, reads,
                   dashTemplates, tasks, uploads, request, contracts>>

\* zip.generateAsync settles.  Resolved: `${folderName}.zip` is downloaded.
\* Rejected: the catch logs and alerts.  finally: setIsZipping(null), which
\* sets nothing once the dashboard that started the export has unmounted.
ZipGenerated(z, ok) ==
    /\ zips' = Take(zips, z)
    /\ exports' = Append(exports,
                         IF ok THEN [download |-> FolderName(z.groupKey) \o <<46, 122, 105, 112>>,
                                     folder |-> FolderName(z.groupKey),
                                     files |-> z.files]
                         ELSE [alert |-> "error while creating the archive"])
    /\ console' = IF ok THEN console ELSE <<"ZIP Generation failed:", "Error">>
    /\ isZipping' = IF z.mounted THEN Null ELSE isZipping
    /\ UNCHANGED <<clock, localStorage, network, appVars, wizardVars, reads,
                   dashTemplates, tasks, uploads, request, contracts>>

(***************************************************************************)
(* The application.  It is opened (loaded at LoadTime) on a device that is *)
(* new, or on one where an earlier session (loaded at PriorLoadTime)       *)
(* seeded the templates and stored contracts.  App shows the dashboard and *)
(* the dashboard's mount effect has called refreshData.                    *)
(***************************************************************************)
PriorLoadTime == 1

\* A contract the earlier session stored at `now`.
PriorContract(now) ==
    LET template == DefaultTemplatesAt(PriorLoadTime)[1]
        s == [name |-> TxtKim, phone |-> TxtPhone, email |-> TxtEmail,
              address |-> TxtSeoul, dob |-> Empty]
    IN NewContract(Draft(template, s, generateContractPDF(template, s, PadDataUrl), now), now)

\* localStorage of a new device, and what the earlier session left in it.
FirstRun == [k \in {STORAGE_KEYS.TEMPLATES, STORAGE_KEYS.CONTRACTS} |-> Null]
Returning(stored) ==
    [k \in {STORAGE_KEYS.TEMPLATES, STORAGE_KEYS.CONTRACTS} |->
        IF k = STORAGE_KEYS.TEMPLATES
        THEN JsonStringify(DefaultTemplatesAt(PriorLoadTime))
        ELSE IF stored = <<>> THEN Null ELSE JsonStringify(stored)]

OpenedOn(storage) ==
    /\ clock = LoadTime
    /\ localStorage = storage
    /\ network = EmptyBag
    /\ console = <<>>
    /\ view = "DASHBOARD"
    /\ showSuccessToast = FALSE
    /\ currentStep = 1
    /\ loading = FALSE
    /\ templates = <<>>
    /\ selectedTemplate = Null
    /\ signer = InitialSigner
    /\ agreed = FALSE
    /\ signature = Null
    /\ pad = [mounted |-> FALSE, drawn |-> FALSE, timer |-> FALSE]
    /\ reads = <<Read("dashboard", LoadTime)>>
    /\ dashTemplates = <<>>
    /\ tasks = EmptyBag
    /\ uploads = EmptyBag
    /\ contracts = <<>>
    /\ isZipping = Null
    /\ zips = EmptyBag
    /\ exports = <<>>

(***************************************************************************)
(* Signing contracts: the operator walks through the wizard.               *)
(***************************************************************************)
Init ==
    /\ \E storage \in {FirstRun, Returning(<<PriorContract(PriorLoadTime)>>)} : OpenedOn(storage)
    /\ request = Null

\* The template the operator picks at step 1: the first one listed.
Offered == IF templates = <<>> THEN {} ELSE {Head(templates)}

Next ==
    \/ Tick
    \/ StartContract
    \/ Cancel
    \/ ToastTimeout
    \/ TemplatesRead
    \/ \E tpl \in Offered : SelectTemplate(tpl)
    \/ \E s \in Signers : EditSigner(s)
    \/ ToggleAgreed
    \/ NextStep
    \/ PrevStep
    \/ PadStroke
    \/ PadClear
    \/ PadInitialResize
    \/ PadWindowResize
    \/ handleSign
    \/ \E t \in BagToSet(tasks) : SynthesisDone(t)
    \/ \E t \in BagToSet(tasks) : SaveLocal(t)
    \/ \E t \in BagToSet(tasks) : \E outcome \in Outcomes : Respond(t, outcome)

Spec == Init /\ [][Next]_vars

(***************************************************************************)
(* Managing templates: the administrator uploads templates and moves       *)
(* between the dashboard and the wizard.                                   *)
(***************************************************************************)
TemplateInit ==
    \E storage \in {FirstRun, Returning(<<>>),
                    Returning(<<PriorContract(PriorLoadTime)>>),
                    Returning(<<PriorContract(PriorLoadTime + 1), PriorContract(PriorLoadTime)>>)} :
        /\ OpenedOn(storage)
        /\ request = Null

TemplateNext ==
    \/ Tick
    \/ StartContract
    \/ Cancel
    \/ TemplatesRead
    \/ \E file \in Files : handleFileChange(file)
    \/ \E u \in BagToSet(uploads) : UploadPrepare(u)
    \/ \E u \in BagToSet(uploads) : UploadWrite(u)
    \/ \E u \in BagToSet(uploads) : UploadRefreshed(u)

TemplateSpec == TemplateInit /\ [][TemplateNext]_vars

(***************************************************************************)
(* Progress.  What the browser schedules by itself happens: time passes,   *)
(* a timer that is due fires, a promise that settles runs its              *)
(* continuation.  Nothing obliges the operator to act, and nothing obliges *)
(* the relay to answer a request: fetch is called without a signal, so the *)
(* request stays pending for as long as no response arrives.               *)
(***************************************************************************)
FairSpec ==
    /\ Spec
    /\ WF_vars(Tick)
    /\ WF_vars(ToastTimeout)
    /\ WF_vars(TemplatesRead)
    /\ WF_vars(PadInitialResize)
    /\ WF_vars(\E t \in BagToSet(tasks) : SynthesisDone(t))
    /\ WF_vars(\E t \in BagToSet(tasks) : SaveLocal(t))

(***************************************************************************)
(* The services called on their own: one call of                           *)
(* backendService.searchContracts or of generateContractPDF, with          *)
(* arguments the application need not produce, on a device where an        *)
(* earlier session seeded the templates and stored contracts.              *)
(***************************************************************************)
\* The contract an earlier session stored at `now` for signer `s`.
StoredContract(template, s, now) ==
    NewContract(Draft(template, s, generateContractPDF(template, s, PadDataUrl), now), now)

\* A template uploaded from "PT.pdf", and one uploaded from "T01.pdf".
TemplatePT ==
    NewTemplate(TemplateDraft(CHOOSE file \in Files : file.type = "application/pdf"), PriorLoadTime)
TemplateT01 == [TemplatePT EXCEPT !.name = <<84, 48, 49>>, !.type = "OTHER"]

\* Stored contracts: Kim (010), Lee01 (555), Park (0105, template PT) and
\* KIM (777, template T01).
SearchContracts ==
    LET signed(name, phone) ==
            [name |-> name, phone |-> phone, email |-> TxtEmail, address |-> TxtSeoul, dob |-> Empty]
    IN { PriorContract(PriorLoadTime),
         StoredContract(DefaultTemplatesAt(PriorLoadTime)[1],
                        signed(<<76, 101, 101, 48, 49>>, <<53, 53, 53>>), PriorLoadTime + 1),
         StoredContract(TemplatePT, signed(<<80, 97, 114, 107>>, <<48, 49, 48, 53>>), PriorLoadTime + 1),
         StoredContract(TemplateT01, signed(<<75, 73, 77>>, <<55, 55, 55>>), PriorLoadTime) }

\* The collections the device may hold: up to MaxStored contracts.
MaxStored == 2
SearchStores ==
    { Returning(list) :
        list \in { stored \in UNION { [1..n -> SearchContracts] : n \in 0..MaxStored } :
                           ~SetItemThrows(Returning(<<>>), STORAGE_KEYS.CONTRACTS,
                                          JsonStringify(stored)) } }

\* What is typed into the search box: nothing, "kim", "KIM", "01", "010", "pt",
\* "5", the first syllable of a default template's name, "x".
Queries ==
    { <<>>, <<107, 105, 109>>, <<75, 73, 77>>, <<48, 49>>, <<48, 49, 48>>, <<112, 116>>,
      <<53>>, <<54532>>, <<120>> }

\* Arguments of generateContractPDF: a template with a Hangul name or an ASCII
\* one; a signer with every field ASCII, or with one field (name, address,
\* phone, email, dob) in Hangul, or with a name in Latin-1; no signature, the
\* pad's PNG, base64 of bytes that are no PNG, and two texts that are no base64
\* ("@@@" and "Q").
TxtHangulKim == <<44608>>
PdfTemplates == {DefaultTemplatesAt(PriorLoadTime)[1], TemplatePT}
PdfSigners ==
    LET ascii == [name |-> TxtKim, phone |-> TxtPhone, email |-> TxtEmail,
                  address |-> TxtSeoul, dob |-> <<49, 57, 57, 48>>]
    IN { ascii,
         [ascii EXCEPT !.name = TxtHangulKim],
         [ascii EXCEPT !.address = <<49436, 50872>>],
         [ascii EXCEPT !.phone = TxtHangulPhone],
         [ascii EXCEPT !.email = <<44608>> \o TxtEmail],
         [ascii EXCEPT !.dob = <<45380>>],
         [ascii EXCEPT !.name = <<82, 101, 110, 233>>] }
PdfSignatures ==
    { Null, PadDataUrl,
      DataUrl("image/png", btoa(<<1, 2, 3>>)),
      DataUrl("image/png", <<64, 64, 64>>),
      DataUrl("image/png", <<81>>) }

\* Contracts an earlier session stored: one signed in January 1970 (local
\* time), two signed by Kim on the same template in December 1969, 10 000 ms
\* apart, one of December whose data URL has no payload, one of January whose
\* signer typed A","B as their name.
ExportContracts ==
    LET template == DefaultTemplatesAt(PriorLoadTime)[1]
        signed(name) == [name |-> name, phone |-> TxtPhone, email |-> TxtEmail,
                         address |-> TxtSeoul, dob |-> Empty]
    IN { StoredContract(template, signed(TxtKim), PriorLoadTime),
         StoredContract(template, signed(TxtKim), -32410004),
         StoredContract(template, signed(TxtKim), -32420004),
         [StoredContract(TemplatePT, signed(<<76, 101, 101>>), -32410005)
             EXCEPT !.pdfDataUrl = DataUrl("application/pdf", Empty)],
         StoredContract(template, signed(<<65, 34, 44, 34, 66>>), PriorLoadTime + 1) }

\* The lists the dashboard may be given to group: up to MaxGrouped contracts.
MaxGrouped == 3
GroupLists == UNION { [1..n -> ExportContracts] : n \in 0..MaxGrouped }

\* Bodies posted to the relay: the stored contracts as saveSignedContract sends
\* them, and two bodies that lack signerName, resp. pdfDataUrl.
RelayBodies ==
    { StringifyRecord(c) : c \in SearchContracts }
    \cup { [k \in DOMAIN PriorContract(PriorLoadTime) \ {missing} |-> PriorContract(PriorLoadTime)[k]] :
              missing \in {"signerName", "pdfDataUrl"} }

Requests ==
    { [op |-> "searchContracts", query |-> q, at |-> LoadTime, result |-> Null] : q \in Queries }
    \cup
    { [op |-> "groupedContracts", contracts |-> list, result |-> Null] : list \in GroupLists }
    \cup
    { [op |-> "POST /api/contracts", body |-> b, pc |-> "received", disk |-> {}, mail |-> Null,
       result |-> Null] : b \in RelayBodies }
    \cup
    { [op |-> "generateContractPDF", template |-> tpl, signer |-> s, signatureDataUrl |-> sig,
       at |-> LoadTime, result |-> Null] :
        tpl \in PdfTemplates, s \in PdfSigners, sig \in PdfSignatures }

ServiceInit ==
    /\ \E storage \in SearchStores : OpenedOn(storage)
    /\ request \in Requests

\* searchContracts: the delay(300) of getSignedContracts ends, the stored
\* collection is read and filtered, the call resolves.
SearchResolved ==
    /\ request # Null
    /\ request.op = "searchContracts"
    /\ request.result = Null
    /\ clock > request.at
    /\ request' = [request EXCEPT
                       !.result = [resolved |-> searchContracts(request.query,
                                                    GetSignedContractsValue(localStorage))]]
    /\ UNCHANGED <<clock, localStorage, network, console, appVars, wizardVars, reads,
                   dashTemplates, tasks, uploads, exportVars>>

\* generateContractPDF settles: rejected with the error of a drawText call, or
\* resolved with the data URL of the document.
PdfSettled ==
    /\ request # Null
    /\ request.op = "generateContractPDF"
    /\ request.result = Null
    /\ LET throws == GeneratePdfThrows(request.template, request.signer, request.signatureDataUrl)
           embedFailed == /\ request.signatureDataUrl # Null
                          /\ EmbedPngThrows(request.signatureDataUrl)
       IN /\ request' = [request EXCEPT
                             !.result = IF throws THEN [rejected |-> "WinAnsi cannot encode"]
                                        ELSE [resolved |-> generateContractPDF(request.template,
                                                  request.signer, request.signatureDataUrl)]]
          /\ console' = IF throws THEN <<"PDF Generation failed:", "WinAnsi cannot encode">>
                        ELSE IF embedFailed
                        THEN <<"Failed to embed signature image",
                               IF AtobThrows(request.signatureDataUrl.base64)
                               THEN "InvalidCharacterError" ELSE "not a PNG file">>
                        ELSE console
    /\ UNCHANGED <<clock, localStorage, network, appVars, wizardVars, reads, dashTemplates,
                   tasks, uploads, exportVars>>

\* signerName.replace(/[^a-zA-Z0-9가-힣]/g, "")
safeName(signerName) ==
    LET Kept(c) == \/ c >= 97 /\ c <= 122
                   \/ c >= 65 /\ c <= 90
                   \/ c >= 48 /\ c <= 57
                   \/ c >= 44032 /\ c <= 55203
    IN SelectSeq(signerName, Kept)

\* The file the relay writes for a body at `now`: contracts_storage/YYYY/MM/
\* Name_Phone_Timestamp.pdf, holding the document of the data URL.
RelayFile(body, now) ==
    [dir |-> <<NumberText(getFullYear(body.signedAt)), padStart2(getMonth(body.signedAt) + 1)>>,
     filename |-> safeName(body.signerName) \o <<95>> \o body.signerPhone \o <<95>>
                  \o NumberText(now) \o <<46, 112, 100, 102>>,
     content |-> body.pdfDataUrl.base64]

\* A relay that answers 500 when the mail could not be sent.
RelayRespond_MailRequired(file, sent) ==
    IF sent
    THEN [status |-> 200, success |-> TRUE, contractId |-> file.filename,
          fileUrl |-> <<"/files", file.dir[1], file.dir[2], file.filename>>]
    ELSE [status |-> 500, success |-> FALSE]

\* res.status(200).json({ success: true, message, contractId: filename, fileUrl })
RelayRespond(file, sent) ==
    [status |-> 200, success |-> TRUE, contractId |-> file.filename,
     fileUrl |-> <<"/files", file.dir[1], file.dir[2], file.filename>>]

\* The POST handler of the relay up to sendMail: the body is destructured, the
\* directories are made and the file is written.  A body without signerName or
\* pdfDataUrl throws a TypeError; mkdirSync and writeFileSync may throw.  The
\* outer catch answers 500.
RelayStore(fsThrows) ==
    /\ request # Null
    /\ request.op = "POST /api/contracts"
    /\ request.pc = "received"
    /\ IF fsThrows \/ {"signerName", "pdfDataUrl"} \ DOMAIN request.body # {}
       THEN /\ request' = [request EXCEPT !.pc = "responded",
                                          !.result = [status |-> 500, success |-> FALSE]]
            /\ console' = <<"[SERVER ERROR] Processing contract:",
                            IF fsThrows THEN "ENOSPC" ELSE "TypeError">>
       ELSE /\ request' = [request EXCEPT !.pc = "mail",
                                          !.disk = {RelayFile(request.body, clock)}]
            /\ console' = <<"[FILE] Contract saved:">>
    /\ UNCHANGED <<clock, localStorage, network, appVars, wizardVars, reads, dashTemplates,
                   tasks, uploads, exportVars>>

\* transporter.sendMail settles: sent, or rejected and caught by the inner
\* catch; the handler answers 200 with the URL of the file.
RelayMailed(sent) ==
    /\ request # Null
    /\ request.op = "POST /api/contracts"
    /\ request.pc = "mail"
    /\ LET file == CHOOSE f \in request.disk : TRUE
       IN request' = [request EXCEPT !.pc = "responded",
                                     !.mail = IF sent THEN [to |-> request.body.signerEmail,
                                                            attachment |-> file.filename]
                                              ELSE Null,
                                     !.result = RelayRespond(file, sent)]
    /\ console' = IF sent THEN <<"[EMAIL] Sent to">>
                  ELSE <<"[EMAIL ERROR] Failed to send email. Check SMTP config.", "ECONNREFUSED">>
    /\ UNCHANGED <<clock, localStorage, network, appVars, wizardVars, reads, dashTemplates,
                   tasks, uploads, exportVars>>

\* AdminDashboard renders a contract list: the groups and the order of their keys.
Grouped ==
    /\ request # Null
    /\ request.op = "groupedContracts"
    /\ request.result = Null
    /\ request' = [request EXCEPT !.result = [groups |-> groupedContracts(request.contracts),
                                              keys |-> sortedGroupKeys(request.contracts)]]
    /\ UNCHANGED <<clock, localStorage, network, console, appVars, wizardVars, reads,
                   dashTemplates, tasks, uploads, exportVars>>

ServiceNext ==
    \/ Tick
    \/ TemplatesRead
    \/ SearchResolved
    \/ PdfSettled
    \/ \E fsThrows \in BOOLEAN : RelayStore(fsThrows)
    \/ \E sent \in BOOLEAN : RelayMailed(sent)
    \/ Grouped

ServiceSpec == ServiceInit /\ [][ServiceNext]_vars

(***************************************************************************)
(* Exporting: the administrator, on a device where an earlier session      *)
(* stored contracts, exports the list and the groups, and moves between    *)
(* the dashboard and the wizard.                                           *)
(***************************************************************************)
\* The collections the device may hold: up to MaxStored different contracts.
ExportStores ==
    { Returning(list) :
        list \in { stored \in UNION { [1..n -> ExportContracts] : n \in 0..MaxStored } :
                      /\ \A i, j \in 1..Len(stored) : stored[i] = stored[j] => i = j
                      /\ ~SetItemThrows(Returning(<<>>), STORAGE_KEYS.CONTRACTS,
                                     JsonStringify(stored)) } }

ExportInit ==
    /\ \E storage \in ExportStores : OpenedOn(storage)
    /\ request = Null

\* The groups on screen, each with its ZIP button.
GroupsShown == {sortedGroupKeys(contracts)[i] : i \in 1..Len(sortedGroupKeys(contracts))}

ExportNext ==
    \/ Tick
    \/ StartContract
    \/ Cancel
    \/ TemplatesRead
    \/ handleExportCSV
    \/ \E key \in GroupsShown : handleDownloadZip(key, groupedContracts(contracts)[key])
    \/ \E z \in BagToSet(zips) : \E ok \in BOOLEAN : ZipGenerated(z, ok)

ExportSpec == ExportInit /\ [][ExportNext]_vars

(***************************************************************************)
(* Properties of the contract collection and of signing.                   *)
(***************************************************************************)
\* The persisted contract collection, as getSignedContracts reads it.
Contracts == GetSignedContractsValue(localStorage)

Occurs(r, list) == \E i \in 1..Len(list) : list[i] = r
IsSuffix(old, new) ==
    /\ Len(old) <= Len(new)
    /\ SubSeq(new, Len(new) - Len(old) + 1, Len(new)) = old

\* This step starts a POST with `body`; this step is the settling of the POST with `body`.
Started(body) == CopiesIn(body, network') > CopiesIn(body, network)
Answered(body) == CopiesIn(body, network') < CopiesIn(body, network)
Bodies == BagToSet(network) \cup BagToSet(network')

\* This step is the continuation of invocation `t` that was waiting at `pc`.  (A
\* step that unmounts the wizard changes the view; an invocation is mounted only
\* while its wizard is on screen.)
Continues(t, pc) ==
    /\ t.pc = pc
    /\ CopiesIn(t, tasks') < CopiesIn(t, tasks)
    /\ view' = view

\* This step ends the handleSign invocation `t` in its catch block.
Caught(t) ==
    /\ BagCardinality(tasks') < BagCardinality(tasks)
    /\ CopiesIn(t, tasks') < CopiesIn(t, tasks)
    /\ console'[1] = "Signing failed"

\* C1: the record of a contract is in the local collection from the moment its
\* POST to /api/contracts is started (the write comes first), and the step in
\* which a POST settles, whatever its outcome, leaves the local collection as
\* it is.
C1_LocalWriteBeforeForward ==
    /\ [](\A body \in BagToSet(network) : Occurs(body, Contracts))
    /\ [][(\E body \in Bodies : Answered(body)) => Contracts' = Contracts]_vars

\* A POST was answered as unreachable while the POST of another contract is
\* still pending; both records are stored.
C1_Witness ==
    /\ console = ForwardLog("unreachable")
    /\ network # EmptyBag
    /\ Len(Contracts) >= 2

\* C2: when the POST of a saved contract settles, also with an error response
\* or a network failure, the record is in the local collection and onComplete
\* runs: the application shows the dashboard with the success toast.
C2_ForwardFailureStillSucceeds ==
    [][\A body \in Bodies :
          Answered(body) =>
              /\ Occurs(body, Contracts')
              /\ view' = "DASHBOARD"
              /\ showSuccessToast'
              /\ console' \in {ForwardLog(outcome) : outcome \in Outcomes}]_vars

\* The relay answered with an error status: the dashboard shows the toast and
\* the record is stored.
C2_Witness ==
    /\ console = ForwardLog("error")
    /\ view = "DASHBOARD"
    /\ showSuccessToast
    /\ Contracts # <<>>

\* C3: once the POST of a saved contract is pending, saveSignedContract
\* eventually returns and handleSign ends, also when no response ever arrives.
C3_ForwardCannotBlock ==
    (\E t \in BagToSet(tasks) : t.pc = "fetch") ~> (\A t \in BagToSet(tasks) : t.pc # "fetch")

\* C4: no stored contract comes from an attempt whose synthesis fails, and the
\* step in which generateContractPDF rejects changes neither the stored
\* collections nor the pending requests, and leaves the wizard on screen
\* without a success toast being raised.
C4_SynthesisFailureLeavesNothing ==
    /\ [](\A i \in 1..Len(Contracts) :
             ~DrawTextThrows(Contracts[i].signerPhone) /\ ~DrawTextThrows(Contracts[i].signerEmail))
    /\ [][\A t \in BagToSet(tasks) :
             (Continues(t, "synth") /\ GeneratePdfThrows(t.template, t.signer, t.signature)) =>
                 /\ UNCHANGED <<localStorage, network, view, showSuccessToast>>
                 /\ Caught(t)]_vars

\* Synthesis failed for a signer whose phone number has no WinAnsi encoding.
C4_Witness ==
    /\ console = <<"Signing failed", "WinAnsi cannot encode">>
    /\ view = "WIZARD"
    /\ signer.phone = TxtHangulPhone

\* C5: the step in which the storage write of saveSignedContract throws leaves
\* localStorage as it was, starts no POST, reaches the catch of handleSign and
\* reports no success.
C5_StorageFailureLeavesNothing ==
    [][\A t \in BagToSet(tasks) :
          (/\ Continues(t, "delay")
           /\ SetItemThrows(localStorage, STORAGE_KEYS.CONTRACTS,
                            JsonStringify(<<t.newContract>> \o Contracts))) =>
              /\ UNCHANGED <<localStorage, network, view, showSuccessToast>>
              /\ Caught(t)
              /\ console' = <<"Signing failed", "QuotaExceededError">>]_vars

\* The write of a third contract was refused for lack of space.
C5_Witness ==
    /\ console = <<"Signing failed", "QuotaExceededError">>
    /\ Len(Contracts) = 2

\* C6 as stated: at the moment saveSignedContract returns (its POST has
\* settled), the first record of the stored collection is the record it saved.
C6_FirstWhenReturned ==
    [][\A body \in Bodies : Answered(body) => Head(Contracts') = body]_vars

\* C6: the write of saveSignedContract makes the first stored record equal to
\* the draft in every draft field, with an identifier and status SENT added;
\* when the call returns, the record is in the stored collection (where a call
\* that wrote in between has placed its own record before it).
C6_RoundTrip ==
    [][/\ \A t \in BagToSet(tasks) :
             (Continues(t, "delay") /\ Contracts' # Contracts) =>
                 LET first == Head(Contracts')
                 IN /\ DOMAIN first = DOMAIN t.draft \cup {"id", "status"}
                    /\ \A k \in DOMAIN t.draft : first[k] = t.draft[k]
                    /\ first.status = "SENT"
                    /\ first.id = MakeId("cnt_", t.draft.signedAt.iso)
                    /\ Started(first)
       /\ \A body \in Bodies : Answered(body) => Occurs(body, Contracts')]_vars

\* A call has returned whose record is stored, but not first: another call
\* wrote after it.
C6_Witness ==
    /\ console \in {ForwardLog(outcome) : outcome \in Outcomes}
    /\ Len(Contracts) >= 2
    /\ \E t \in BagToSet(tasks) : t.pc = "fetch" /\ Head(Contracts) = t.newContract

\* C7: every step leaves the stored contracts where they are: the collection
\* before the step is a suffix of the collection after it, record for record.
C7_AppendOnly ==
    [][IsSuffix(Contracts, Contracts')]_vars

\* A contract was added before the one an earlier session stored.
C7_Witness ==
    /\ Len(Contracts) = 2
    /\ Contracts[2] = PriorContract(PriorLoadTime)
    /\ Contracts[1].id = MakeId("cnt_", LoadTime + 1)

\* C8: no two records of the stored contract collection have the same identifier.
C8_ContractIdsUnique ==
    \A i, j \in 1..Len(Contracts) : i # j => Contracts[i].id # Contracts[j].id

(***************************************************************************)
(* Properties of the template collection.                                  *)
(***************************************************************************)
\* The stored text of the template collection, and the records in it.
StoredTemplates == localStorage[STORAGE_KEYS.TEMPLATES]
Templates == IF StoredTemplates = Null THEN <<>> ELSE JsonParse(StoredTemplates)

\* This step is the write of the uploadTemplate call of invocation `u`.
Uploaded(u) ==
    /\ u.pc = "read"
    /\ CopiesIn(u, uploads') < CopiesIn(u, uploads)
    /\ view' = view
    /\ \E v \in BagToSet(uploads') :
           /\ v.pc = "refresh" /\ v.newTemplate = u.newTemplate
           /\ CopiesIn(v, uploads') > CopiesIn(v, uploads)

\* C9: the write of uploadTemplate puts the new template first in the stored
\* collection, and its identifier is the identifier of no other stored template
\* (those stored before, the seeded defaults among them).
C9_NewestFirstWithFreshId ==
    [][\A u \in BagToSet(uploads) :
          Uploaded(u) =>
              /\ Head(Templates') \in {StringifyRecord(u.newTemplate),
                                       StringifyRecord(FallbackTemplate(u.newTemplate))}
              /\ \A i \in 2..Len(Templates') : Templates'[i].id # Head(Templates').id]_vars

\* C10: the step that first stores a template collection stores the three
\* defaults (below the template of the upload, if an upload is what accessed the
\* collection) and hands the defaults to the component that asked; from then on
\* no step removes, replaces or reorders a stored template, and a component
\* that loads the list receives the stored collection.
C10_SeededOnceThenKept ==
    [][/\ (StoredTemplates = Null /\ StoredTemplates' # Null) =>
             /\ IsSuffix(DEFAULT_TEMPLATES, Templates')
             /\ Len(Templates') <= Len(DEFAULT_TEMPLATES) + 1
             /\ templates' \in {templates, <<>>, DEFAULT_TEMPLATES}
             /\ dashTemplates' \in {dashTemplates, <<>>, DEFAULT_TEMPLATES}
       /\ StoredTemplates # Null =>
             /\ StoredTemplates' # Null
             /\ IsSuffix(Templates, Templates')
             /\ templates' \in {templates, <<>>, Templates}
             /\ dashTemplates' \in {dashTemplates, <<>>, Templates}
             /\ (templates' # templates \/ dashTemplates' # dashTemplates) =>
                    Templates' = Templates]_vars

\* The dashboard's first load seeded the defaults; the wizard, opened later,
\* loaded the same three from storage.
C10_Witness ==
    /\ view = "WIZARD"
    /\ templates = DEFAULT_TEMPLATES
    /\ Templates = DEFAULT_TEMPLATES

\* The collection an uploadTemplate call reads in this state, as it is (or, on a
\* device without one, is about to be) stored; whether the collection with
\* `first` put before it exceeds the quota.
KeptTemplates == JsonParse(JsonStringify(GetTemplatesValue(localStorage)))
Overflows(first) ==
    SetItemThrows(GetTemplatesStorage(localStorage), STORAGE_KEYS.TEMPLATES,
                  JsonStringify(<<first>> \o GetTemplatesValue(localStorage)))
WithoutPdf(template) == [template EXCEPT !.basePdfUrl = Undefined]

\* This step ends invocation `u` in the catch block of handleFileChange.
UploadThrew(u) ==
    /\ u.pc = "read"
    /\ CopiesIn(u, uploads') < CopiesIn(u, uploads)
    /\ BagCardinality(uploads') < BagCardinality(uploads)
    /\ view' = view

\* C11: when the collection with the new template exceeds the quota, the write
\* is repeated with basePdfUrl left out.  If that fits, uploadTemplate resolves
\* and the stored collection is the new template, every other field as built,
\* followed by the templates stored before.  If that does not fit either, the
\* call throws, the failure is logged and the stored templates are those stored
\* before.  A call resolves only with its template stored first.
C11_RetryWithoutPdfOrThrow ==
    [][\A u \in BagToSet(uploads) :
          /\ (u.pc = "read" /\ CopiesIn(u, uploads') < CopiesIn(u, uploads) /\ view' = view
              /\ ~GetTemplatesThrows(localStorage)
              /\ Overflows(u.newTemplate)) =>
                 IF ~Overflows(WithoutPdf(u.newTemplate))
                 THEN /\ Uploaded(u)
                      /\ Len(Templates') = Len(KeptTemplates) + 1
                      /\ Tail(Templates') = KeptTemplates
                      /\ DOMAIN Head(Templates') = DOMAIN u.newTemplate \ {"basePdfUrl"}
                      /\ \A k \in DOMAIN Head(Templates') : Head(Templates')[k] = u.newTemplate[k]
                 ELSE /\ UploadThrew(u)
                      /\ console'[1] = "File upload failed:"
                      /\ Templates' = KeptTemplates
          /\ Uploaded(u) =>
                 /\ Templates' # <<>>
                 /\ Head(Templates').id = u.newTemplate.id
                 /\ Tail(Templates') = KeptTemplates
          /\ (UploadThrew(u) /\ ~GetTemplatesThrows(localStorage)) =>
                 Templates' = KeptTemplates]_vars

\* The first write exceeded the quota and the retry was stored: the upload is
\* about to report success, and the template stored first is the uploaded one
\* without its basePdfUrl, above the three defaults.
C11_Witness ==
    /\ console = <<"LocalStorage quota exceeded. Saving template without PDF body.">>
    /\ Len(Templates) = Len(DEFAULT_TEMPLATES) + 1
    /\ "basePdfUrl" \notin DOMAIN Head(Templates)
    /\ \E u \in BagToSet(uploads) :
           /\ u.pc = "refresh"
           /\ u.newTemplate.basePdfUrl # Undefined
           /\ Head(Templates) = StringifyRecord(FallbackTemplate(u.newTemplate))

Searched ==
    /\ request # Null
    /\ request.op = "searchContracts"
    /\ request.result # Null
Found == request.result.resolved

\* C13: a searchContracts call with the empty query resolves with the stored
\* collection that getSignedContracts reads: the same records in the same order.
C13_EmptyQueryListsAll ==
    (Searched /\ request.query = <<>>) => Found = GetSignedContractsValue(localStorage)

\* Nothing was typed and both stored contracts were returned in stored order.
C13_Witness ==
    /\ Searched
    /\ request.query = <<>>
    /\ Len(Found) = 2
    /\ Found[1] = Contracts[1]
    /\ Found[2] = Contracts[2]
    /\ Found[1] # Found[2]

\* `text` contains `q` when upper and lower case of a letter count as the same.
SameLetter(a, b) ==
    \/ a = b
    \/ a >= 65 /\ a <= 90 /\ b = a + 32
    \/ b >= 65 /\ b <= 90 /\ a = b + 32
ContainsIgnoringCase(text, q) ==
    \E from \in 0..(Len(text) - Len(q)) : \A j \in 1..Len(q) : SameLetter(text[from + j], q[j])
ContainsRaw(text, q) ==
    \E from \in 0..(Len(text) - Len(q)) : \A j \in 1..Len(q) : text[from + j] = q[j]

\* The records of `list` at the positions in `positions`, in the order of `list`.
RECURSIVE AtPositions(_, _)
AtPositions(list, positions) ==
    IF positions = {} THEN <<>>
    ELSE LET first == CHOOSE i \in positions : \A j \in positions : i <= j
         IN <<list[first]>> \o AtPositions(list, positions \ {first})

\* C14: a searchContracts call resolves with the stored contracts, in stored
\* order, at exactly the positions where the signer name contains the query
\* ignoring case, or the template name contains it ignoring case, or the signer
\* phone contains it as typed.
C14_MatchesInStoredOrder ==
    Searched =>
        Found = AtPositions(Contracts,
                    { i \in 1..Len(Contracts) :
                        \/ ContainsIgnoringCase(Contracts[i].signerName, request.query)
                        \/ ContainsIgnoringCase(Contracts[i].templateName, request.query)
                        \/ ContainsRaw(Contracts[i].signerPhone, request.query) })

\* "KIM" was typed; of the two stored contracts the second, signed by "Kim", is
\* the one returned.
C14_Witness ==
    /\ Searched
    /\ request.query = <<75, 73, 77>>
    /\ Len(Contracts) = 2
    /\ Found = <<Contracts[2]>>
    /\ Contracts[2].signerName = TxtKim
    /\ Contracts[1] # Contracts[2]

\* The query is one or more digits.
IsDigits(q) == q # <<>> /\ \A i \in 1..Len(q) : q[i] >= 48 /\ q[i] <= 57

\* C15 as stated: for a query of digits, the contracts returned are exactly
\* those whose phone contains the digits.
C15_ExactlyPhoneMatches ==
    (Searched /\ IsDigits(request.query)) =>
        Found = AtPositions(Contracts,
                    { i \in 1..Len(Contracts) :
                        ContainsRaw(Contracts[i].signerPhone, request.query) })

\* C15: for a query of digits, every stored contract whose phone contains the
\* digits is returned, in stored order, and a contract returned although its
\* phone does not contain them has the digits in its signer name or in its
\* template name.
C15_PhoneMatchesAllReturned ==
    (Searched /\ IsDigits(request.query)) =>
        /\ AtPositions(Found, { i \in 1..Len(Found) :
                                  ContainsRaw(Found[i].signerPhone, request.query) })
           = AtPositions(Contracts, { i \in 1..Len(Contracts) :
                                        ContainsRaw(Contracts[i].signerPhone, request.query) })
        /\ \A i \in 1..Len(Found) :
               \/ ContainsRaw(Found[i].signerPhone, request.query)
               \/ ContainsRaw(Found[i].signerName, request.query)
               \/ ContainsRaw(Found[i].templateName, request.query)

\* "010" was typed; of the two stored contracts only the one with phone 0105
\* was returned.
C15_Witness ==
    /\ Searched
    /\ request.query = <<48, 49, 48>>
    /\ Len(Contracts) = 2
    /\ Len(Found) = 1
    /\ Found[1].signerPhone = <<48, 49, 48, 53>>

(***************************************************************************)
(* Properties of the synthesis.                                            *)
(***************************************************************************)
\* A generateContractPDF call has settled; its arguments and its outcome.
Synthesized ==
    /\ request # Null
    /\ request.op = "generateContractPDF"
    /\ request.result # Null
Rejected == "rejected" \in DOMAIN request.result
Resolved == "resolved" \in DOMAIN request.result

\* C16: no generateContractPDF call is rejected: whatever the template name and
\* the signer's name, address, phone, email and date of birth contain, the text
\* handed to drawText is one the font can encode.
C16_NoTextRejectsSynthesis ==
    Synthesized => Resolved

\* The signature's base64 text cannot be decoded; it can, but not to a PNG image.
Undecodable(signatureDataUrl) ==
    \/ Len(Unpadded(signatureDataUrl.base64)) % 4 = 1
    \/ \E i \in 1..Len(Unpadded(signatureDataUrl.base64)) :
           ~IsB64Char(Unpadded(signatureDataUrl.base64)[i])
NotAnImage(signatureDataUrl) ==
    ~Undecodable(signatureDataUrl) /\ atob(signatureDataUrl.base64) # PngBytes

\* C17: a generateContractPDF call whose signature cannot be decoded or cannot
\* be embedded, and whose texts the font can encode, resolves with a complete
\* data URL: the document carries the marker in place of the image, the
\* "Signed By" name after it and every text drawn before it, and the failure is
\* logged as "Failed to embed signature image".
C17_SignatureFailureIsRecovered ==
    (/\ Synthesized
     /\ request.signatureDataUrl # Null
     /\ Undecodable(request.signatureDataUrl) \/ NotAnImage(request.signatureDataUrl)
     /\ \A k \in {"phone", "email", "dob"} : ~DrawTextThrows(request.signer[k])) =>
        /\ Resolved
        /\ request.result.resolved.mime = "application/pdf"
        /\ LET page == request.result.resolved.base64
           IN /\ page.signature = SignatureMarker
              /\ page.signedBy = sanitizeForPdf(request.signer.name, FallbackName)
              /\ page.title = toUpperCase(sanitizeForPdf(request.template.name, FallbackTitle))
              /\ page.member = sanitizeForPdf(request.signer.name, FallbackName)
              /\ page.address = sanitizeForPdf(request.signer.address, FallbackAddress)
              /\ page.phone = request.signer.phone
              /\ page.email = request.signer.email
              /\ page.dob = request.signer.dob
        /\ console[1] = "Failed to embed signature image"

\* The signature decoded to bytes that are no PNG image; the document was
\* returned with the marker and the fallback title of a template named in Hangul.
C17_Witness ==
    /\ Synthesized
    /\ request.signatureDataUrl = DataUrl("image/png", btoa(<<1, 2, 3>>))
    /\ ~isAscii(request.template.name)
    /\ Resolved
    /\ request.result.resolved.base64.signature = SignatureMarker
    /\ request.result.resolved.base64.title = toUpperCase(FallbackTitle)
    /\ console = <<"Failed to embed signature image", "not a PNG file">>

\* C18: a generateContractPDF call whose signature cannot be base64-decoded is
\* rejected.
C18_UndecodableSignatureRejects ==
    (/\ Synthesized
     /\ request.signatureDataUrl # Null
     /\ Undecodable(request.signatureDataUrl)) => Rejected

(***************************************************************************)
(* Properties of the wizard.                                               *)
(***************************************************************************)
\* What step 2 asks of the signer.
SignerAccepted(s) ==
    /\ s.name # <<>> /\ s.phone # <<>> /\ s.address # <<>>
    /\ isValidEmail(s.email)
    /\ s.email # TxtBad

\* C19: the wizard shows step 2 or 3 only with a template selected, and step 3
\* only with a signer whose name, phone and address are filled in and whose
\* email is an address; every signing attempt in progress was started with a
\* template, such a signer and a signature, and what it hands to
\* saveSignedContract names such a signer and carries the signed document; the
\* step that starts one is
\* taken at step 3 with the selected template, that signer, a signature and the
\* agreement box ticked.
C19_StepsAndSigningGuarded ==
    /\ [](/\ (view = "WIZARD" /\ currentStep >= 2) => selectedTemplate # Null
          /\ (view = "WIZARD" /\ currentStep = 3) => SignerAccepted(signer)
          /\ currentStep \in 1..3
          /\ \A t \in BagToSet(tasks) :
                 IF t.pc = "synth"
                 THEN /\ t.template # Null
                      /\ SignerAccepted(t.signer)
                      /\ t.signature # Null
                 ELSE /\ t.draft.signerName # <<>>
                      /\ t.draft.signerPhone # <<>>
                      /\ isValidEmail(t.draft.signerEmail)
                      /\ t.draft.pdfDataUrl.base64.signature = PngBytes)
    /\ [][BagCardinality(tasks') > BagCardinality(tasks) =>
              /\ view = "WIZARD" /\ currentStep = 3
              /\ selectedTemplate # Null
              /\ SignerAccepted(signer)
              /\ signature # Null
              /\ agreed
              /\ \E t \in BagToSet(tasks') :
                     /\ CopiesIn(t, tasks') > CopiesIn(t, tasks)
                     /\ t.template = selectedTemplate
                     /\ t.signer = signer
                     /\ t.signature = signature]_vars

\* A signing attempt has just been started at step 3 from the form on screen.
C19_Witness ==
    /\ view = "WIZARD"
    /\ currentStep = 3
    /\ loading
    /\ agreed
    /\ \E t \in BagToSet(tasks) :
           /\ t.pc = "synth"
           /\ t.mounted
           /\ t.template = selectedTemplate
           /\ t.signer = signer
           /\ t.signature = signature

\* This step ends the handleSign invocation `t` before its contract was stored
\* (synthesis threw, or the write to localStorage did).  A step that changes the
\* view unmounts invocations and ends none of these.
Failed(t) ==
    /\ t.pc # "fetch"
    /\ view' = view
    /\ BagCardinality(tasks') < BagCardinality(tasks)
    /\ CopiesIn(t, tasks') < CopiesIn(t, tasks)

\* C20: the step in which a signing attempt fails logs "Signing failed" (the
\* alert follows in the same catch block); if the attempt's wizard is still on
\* screen, the step leaves it on screen with loading false and the form as it
\* was, so that the completion button is enabled exactly when step 3 is
\* valid.  loading is true only while an attempt of the wizard on screen is in
\* progress, the cancel button works in every state of the wizard, and from the
\* dashboard a wizard can be started.
C20_FailureLeavesRetryableWizard ==
    /\ [][\A t \in BagToSet(tasks) :
             Failed(t) =>
                 /\ Len(console') = 2
                 /\ console'[1] = "Signing failed"
                 /\ console'[2] \in {"WinAnsi cannot encode", "QuotaExceededError"}
                 /\ \/ /\ t.mounted
                       /\ view = "WIZARD" /\ view' = "WIZARD"
                       /\ loading /\ ~loading'
                       /\ UNCHANGED <<currentStep, templates, selectedTemplate, signer,
                                      agreed, signature, showSuccessToast>>
                       /\ \A u \in BagToSet(tasks') : ~u.mounted
                    \/ /\ ~t.mounted
                       /\ UNCHANGED <<view, wizardVars, showSuccessToast>>]_vars
    /\ [](/\ loading => (view = "WIZARD" /\ \E t \in BagToSet(tasks) : t.mounted)
          /\ view = "WIZARD" => ENABLED Cancel
          /\ view = "DASHBOARD" => ENABLED StartContract)

\* The write of the contract was refused for lack of space; the wizard is at
\* step 3 with loading false, the signature and the agreement still there, and
\* no attempt in progress.
C20_Witness ==
    /\ console = <<"Signing failed", "QuotaExceededError">>
    /\ view = "WIZARD"
    /\ currentStep = 3
    /\ ~loading
    /\ signature # Null
    /\ agreed
    /\ tasks = EmptyBag

(***************************************************************************)
(* Properties of wizard runs and of the stored contracts.                  *)
(***************************************************************************)
\* The attempts of the wizard on screen; this step is the write of the
\* saveSignedContract call of invocation `t`.
MountedTasks == {t \in BagToSet(tasks) : t.mounted}
Saved(t) ==
    /\ Continues(t, "delay")
    /\ \E v \in BagToSet(tasks') :
           /\ v.pc = "fetch" /\ v.newContract = t.newContract
           /\ CopiesIn(v, tasks') > CopiesIn(v, tasks)

\* C26: the wizard on screen has at most one signing attempt in progress, and
\* has one exactly while loading is true; an attempt is only started when there
\* is none.  A step adds at most one record to the stored contracts, and adds
\* one exactly when it is the write of an attempt, whose record it puts first.
\* The wizard's attempt, once its record is written, ends only together with
\* the wizard: the view changes to the dashboard.
C26_OneContractPerRun ==
    /\ [](/\ \A t \in MountedTasks : CopiesIn(t, tasks) = 1
          /\ Cardinality(MountedTasks) <= 1
          /\ MountedTasks # {} => (view = "WIZARD" /\ loading))
    /\ [][/\ BagCardinality(tasks') > BagCardinality(tasks) =>
                 (MountedTasks = {} /\ ~loading /\ Contracts' = Contracts)
          /\ Contracts' # Contracts => \E t \in BagToSet(tasks) : Saved(t)
          /\ \A t \in BagToSet(tasks) :
                 /\ Saved(t) => Contracts' = <<t.newContract>> \o Contracts
                 /\ (t.pc = "fetch" /\ t.mounted /\ CopiesIn(t, tasks') < CopiesIn(t, tasks)) =>
                        (view = "WIZARD" /\ view' = "DASHBOARD" /\ MountedTasks' = {})]_vars

\* On a new device a wizard run was completed: the dashboard shows the toast
\* and one contract is stored.
C26_Witness ==
    /\ view = "DASHBOARD"
    /\ showSuccessToast
    /\ tasks = EmptyBag
    /\ Len(Contracts) = 1
    /\ Contracts[1].id # PriorContract(PriorLoadTime).id

\* C27: every stored contract, every record a saveSignedContract call has
\* built and every body sent to the relay has status SENT, and the step in
\* which a POST settles, whatever its outcome, leaves the stored contracts as
\* they are.
C27_StatusAlwaysSent ==
    /\ [](/\ \A i \in 1..Len(Contracts) : Contracts[i].status = "SENT"
          /\ \A t \in BagToSet(tasks) : t.newContract # Null => t.newContract.status = "SENT"
          /\ \A body \in BagToSet(network) : body.status = "SENT")
    /\ [][\A body \in Bodies : Answered(body) => Contracts' = Contracts]_vars

\* The relay answered ok for the contract of a device that had one before: both
\* are stored with status SENT.
C27_Witness ==
    /\ console = ForwardLog("ok")
    /\ network = EmptyBag
    /\ Len(Contracts) = 2
    /\ Contracts[1].status = "SENT"
    /\ Contracts[2].status = "SENT"

\* How often `r` is in `list`.
CountIn(r, list) == Cardinality({i \in 1..Len(list) : list[i] = r})

\* C28: a saveSignedContract call writes the collection it reads in the same
\* step with its record put first, also while other calls are waiting to read
\* or to write: afterwards every record stored before is still stored, and the
\* records of the calls whose POST is pending are stored as often as there are
\* such calls.
C28_OverlappingSavesKeepBoth ==
    /\ [](\A body \in BagToSet(network) : CountIn(body, Contracts) >= CopiesIn(body, network))
    /\ [][\A t \in BagToSet(tasks) :
             (Saved(t) /\ BagCardinality(tasks) >= 2) =>
                 /\ Len(Contracts') = Len(Contracts) + 1
                 /\ \A r \in {Contracts[i] : i \in 1..Len(Contracts)} \cup {t.newContract} :
                        CountIn(r, Contracts') =
                            CountIn(r, Contracts) + (IF r = t.newContract THEN 1 ELSE 0)]_vars

\* Two calls have written and wait for the relay; both records are stored.
C28_Witness ==
    /\ BagCardinality(network) = 2
    /\ Len(Contracts) = 2
    /\ \A body \in BagToSet(network) : CountIn(body, Contracts) = CopiesIn(body, network)
    /\ \A t \in BagToSet(tasks) : t.pc = "fetch"

\* C29: whenever the completion button is enabled, the signature the wizard
\* holds was drawn on the pad that is on screen.
C29_SignatureIsOnThePad ==
    (/\ view = "WIZARD"
     /\ currentStep = 3
     /\ ~loading
     /\ isStepValidAt(3, selectedTemplate, signer, signature, agreed)) =>
        (pad.mounted /\ pad.drawn)

(***************************************************************************)
(* Properties of the relay.                                                *)
(***************************************************************************)
\* The relay has answered a POST /api/contracts.
Relayed ==
    /\ request # Null
    /\ request.op = "POST /api/contracts"
    /\ request.result # Null

\* C25: the relay answers 200 with success true exactly when it has written the
\* file of the contract, whether the mail was sent or not; it answers 500 only
\* with no file written (the body could not be read or the disk could not be
\* written) and no mail sent.
C25_MailFailureStillAnswersOk ==
    Relayed =>
        /\ request.result.status \in {200, 500}
        /\ request.disk # {} =>
               /\ request.result.status = 200
               /\ request.result.success
               /\ \E f \in request.disk : request.result.contractId = f.filename
        /\ request.result.status = 500 =>
               /\ ~request.result.success
               /\ request.disk = {}
               /\ request.mail = Null

\* The file was written, the mail was not sent, and the relay answered 200.
C25_Witness ==
    /\ Relayed
    /\ console[1] = "[EMAIL ERROR] Failed to send email. Check SMTP config."
    /\ request.mail = Null
    /\ request.disk # {}
    /\ request.result.status = 200
    /\ request.result.success

(***************************************************************************)
(* Properties of the dashboard's groups and exports.                       *)
(***************************************************************************)
\* The dashboard has grouped a contract list.
HasGrouped ==
    /\ request # Null
    /\ request.op = "groupedContracts"
    /\ request.result # Null

\* A text of the form YYYY-MM.
IsYearMonth(key) ==
    /\ Len(key) = 7
    /\ key[5] = 45
    /\ \A i \in {1, 2, 3, 4, 6, 7} : key[i] >= 48 /\ key[i] <= 57

RECURSIVE TotalLen(_, _)
TotalLen(groups, keys) ==
    IF keys = {} THEN 0
    ELSE LET k == CHOOSE k \in keys : TRUE
         IN Len(groups[k]) + TotalLen(groups, keys \ {k})

\* C23: grouping partitions a contract list by the YYYY-MM key of the signing
\* time: the groups together hold as many contracts as the list, each group is
\* the contracts of its month in the order of the list, and the keys are listed
\* once each, strictly descending, the month of later contracts first.
C23_GroupsPartitionByMonth ==
    HasGrouped =>
        LET list == request.contracts
            groups == request.result.groups
            keys == request.result.keys
            Month(c) == <<getFullYear(c.signedAt), getMonth(c.signedAt)>>
        IN /\ {keys[i] : i \in 1..Len(keys)} = DOMAIN groups
           /\ \A k \in DOMAIN groups : IsYearMonth(k) /\ groups[k] # <<>>
           /\ TotalLen(groups, DOMAIN groups) = Len(list)
           /\ \A i \in 1..Len(list) : \E k \in DOMAIN groups : Occurs(list[i], groups[k])
           /\ \A k \in DOMAIN groups :
                  \E c \in ExportContracts :
                      /\ Month(c) = Month(groups[k][1])
                      /\ groups[k] = SelectSeq(list, LAMBDA d : Month(d) = Month(c))
           /\ \A i, j \in 1..Len(keys) :
                  i < j => /\ LexLess(keys[j], keys[i])
                           /\ \A m \in 1..Len(groups[keys[i]]), n \in 1..Len(groups[keys[j]]) :
                                  groups[keys[i]][m].signedAt.iso > groups[keys[j]][n].signedAt.iso

\* A list of three was grouped: a contract of December, one of January, another
\* of December; the keys are 1970-01, then 1969-12.
C23_Witness ==
    /\ HasGrouped
    /\ Len(request.contracts) = 3
    /\ getMonth(request.contracts[1].signedAt) = 11
    /\ getMonth(request.contracts[2].signedAt) = 0
    /\ getMonth(request.contracts[3].signedAt) = 11
    /\ request.contracts[1] # request.contracts[3]
    /\ request.result.keys = << <<49, 57, 55, 48, 45, 48, 49>>, <<49, 57, 54, 57, 45, 49, 50>> >>
    /\ request.result.groups[<<49, 57, 54, 57, 45, 49, 50>>]
           = <<request.contracts[1], request.contracts[3]>>

\* The last entry of the export log.
LastExport == exports[Len(exports)]

\* The groups of the dashboard's list.
GroupsOnScreen == groupedContracts(contracts)

\* C21: the CSV export of an empty list, and the ZIP export of an empty list or
\* of a group in which no contract has a payload, alert that there is nothing to
\* export, start no archive and download nothing; no download ever holds only
\* the header row or an archive without entries.
C21_NothingToExportIsReported ==
    /\ [](\A i \in 1..Len(exports) :
              "download" \in DOMAIN exports[i] =>
                  /\ "content" \in DOMAIN exports[i] => Includes(exports[i].content, <<10, 34>>)
                  /\ "files" \in DOMAIN exports[i] => exports[i].files # {})
    /\ [][handleExportCSV /\ contracts = <<>>
            => exports' = Append(exports, [alert |-> "no contract data to export"])]_vars
    /\ [][\A key \in GroupsShown : \A list \in {<<>>, GroupsOnScreen[key]} :
              /\ handleDownloadZip(key, list)
              /\ \A i \in 1..Len(list) : ~HasPayload(list[i])
              => /\ exports' = Append(exports, [alert |-> "no PDF data to download"])
                 /\ zips' = zips
                 /\ isZipping' = Null]_vars

\* Both alerts were shown: the list was exported before it had loaded, then a
\* group whose only contract has no payload was exported.
C21_Witness ==
    /\ exports = <<[alert |-> "no contract data to export"], [alert |-> "no PDF data to download"]>>
    /\ contracts # <<>>
    /\ \A i \in 1..Len(contracts) : ~HasPayload(contracts[i])
    /\ zips = EmptyBag

\* C22: an archive under construction has one entry for every contract of its
\* group that has a payload.
C22_OneEntryPerDocument ==
    \A z \in BagToSet(zips) :
        Cardinality(z.files) = Len(SelectSeq(z.groupContracts, HasPayload))

\* text.split(sep)
RECURSIVE Split(_, _)
Split(text, sep) ==
    IF ~Includes(text, sep) THEN <<text>>
    ELSE <<SubSeq(text, 1, IndexOf(text, sep) - 1)>>
         \o Split(SubSeq(text, IndexOf(text, sep) + Len(sep), Len(text)), sep)

\* The quoted fields a reader finds in a row: what stands between "," inside
\* the outer quotes.
Fields(line) ==
    IF Len(line) >= 2 /\ line[1] = 34 /\ line[Len(line)] = 34
    THEN Split(SubSeq(line, 2, Len(line) - 1), <<34, 44, 34>>)
    ELSE <<line>>

\* C24: the CSV export of a non-empty list is the byte-order mark, the header
\* row, and one row per contract in the order of the list, whose quoted fields
\* are the identifier, template name, signer name, phone, email and signing date
\* of the contract.
C24_CsvRowsAreTheContracts ==
    [][handleExportCSV /\ contracts # <<>>
         => LET content == LastExport'.content
                lines == Split(Tail(content), <<10>>)
            IN /\ content[1] = 65279
               /\ lines[1] = Join(headers, <<44>>)
               /\ Len(lines) = Len(contracts) + 1
               /\ \A i \in 1..Len(contracts) : Fields(lines[i + 1]) = CsvRow(contracts[i])]_vars

\* The exports in progress that the dashboard on screen started.
MountedZips == {z \in BagToSet(zips) : z.mounted}

====
